---- MODULE Spec2Model ----
(***************************************************************************)
(* A model of the MCUSim AVR core: the instruction decoder and executor of *)
(* src/src/avr/avr_decoder.c (MSIM_AVR_Step, decode_inst, the exec_*       *)
(* functions and the SKIP_CYCLES macro) driven cycle by cycle, with the    *)
(* stack primitive, the SREG accessors, the interrupt arbiter and the      *)
(* driver loop that the decoder is written against.                        *)
(*                                                                         *)
(* The machine is one record, mcu, with the fields of struct MSIM_AVR.     *)
(* Every exec_* operator maps a machine to the machine after the call.     *)
(*                                                                         *)
(* pc is an unsigned long in the source.  A negative value n of mcu.pc     *)
(* stands for the wrapped value ULONG_MAX + 1 + n.                         *)
(***************************************************************************)
EXTENDS Integers, Sequences, FiniteSets, TLC

VARIABLES
    mcu,      \* struct MSIM_AVR: the simulated machine
    build,    \* choices the C standard leaves to the compiler (fixed per build)
    budget,   \* interrupt requests the environment may still raise
    phase,    \* position of the driver loop inside one iteration
    ret,      \* value returned by the last MSIM_AVR_Step call
    last,     \* history: what the last Step / arbiter call saw and did
    tc0,      \* Timer/Counter0: the statics of avr_m328p.c and its history
    vcd,      \* struct MSIM_AVR_VCD: the selected signals and the dump file
    twin      \* a second simulator instance in the same process, and mcu on its own

vars == <<mcu, build, budget, phase, ret, last, tc0, vcd, twin>>

(***************************************************************************)
(* Bit arithmetic on non-negative integers (C's &, |, ^, <<, >>).          *)
(***************************************************************************)
RECURSIVE BitOp(_, _, _)
BitOp(T, a, b) ==
    IF a = 0 /\ b = 0 THEN 0
    ELSE T[(a % 2) + 1][(b % 2) + 1] + 2 * BitOp(T, a \div 2, b \div 2)

\* the three operations on four-bit digits, tabulated once
AndNibble == [x \in 0 .. 15 |-> [y \in 0 .. 15 |-> BitOp(<<<<0, 0>>, <<0, 1>>>>, x, y)]]
OrNibble == [x \in 0 .. 15 |-> [y \in 0 .. 15 |-> BitOp(<<<<0, 1>>, <<1, 1>>>>, x, y)]]
XorNibble == [x \in 0 .. 15 |-> [y \in 0 .. 15 |-> BitOp(<<<<0, 1>>, <<1, 0>>>>, x, y)]]

RECURSIVE BitAnd(_, _)
BitAnd(a, b) ==
    IF a = 0 \/ b = 0 THEN 0
    ELSE AndNibble[a % 16][b % 16] + 16 * BitAnd(a \div 16, b \div 16)

RECURSIVE BitOr(_, _)
BitOr(a, b) ==
    IF a = 0 THEN b
    ELSE IF b = 0 THEN a
    ELSE OrNibble[a % 16][b % 16] + 16 * BitOr(a \div 16, b \div 16)

RECURSIVE BitXor(_, _)
BitXor(a, b) ==
    IF a = 0 THEN b
    ELSE IF b = 0 THEN a
    ELSE XorNibble[a % 16][b % 16] + 16 * BitXor(a \div 16, b \div 16)

Shl(x, n) == x * (2 ^ n)
Shr(x, n) == x \div (2 ^ n)
Bit(x, n) == (x \div (2 ^ n)) % 2
\* ~x of an unsigned char, as far as its low eight bits go
Not8(x) == 255 - x
U8(x) == x % 256

(***************************************************************************)
(* Device profile: where the pointers of struct MSIM_AVR point.            *)
(* NULL is the null pointer (a device without the register).               *)
(***************************************************************************)
NULL == 0
REG_ZH == 31
REG_ZL == 30
SFR_OFF == 32
SREG_ADDR == 95
SPH_ADDR == 94
SPL_ADDR == 93
EIND_ADDR == 92
RAMPZ_ADDR == 91
RAMSTART == 96

\* number of on-chip SRAM bytes of the modelled devices
RamBytes == 8

RAMEND == RAMSTART + RamBytes - 1
DmAddrs == 0 .. RAMEND

\* enum MSIM_AVR_SREGFlag
AVR_SREG_CARRY == 0
AVR_SREG_ZERO == 1
AVR_SREG_NEGATIVE == 2
AVR_SREG_TWOSCOM_OF == 3
AVR_SREG_SIGN == 4
AVR_SREG_HALF_CARRY == 5
AVR_SREG_T_BIT == 6
AVR_SREG_GLOB_INT == 7

\* enum MSIM_AVR_State
AVR_RUNNING == "AVR_RUNNING"
AVR_STOPPED == "AVR_STOPPED"
AVR_SLEEPING == "AVR_SLEEPING"
AVR_MSIM_STEP == "AVR_MSIM_STEP"
AVR_MSIM_STOP == "AVR_MSIM_STOP"
AVR_MSIM_TESTFAIL == "AVR_MSIM_TESTFAIL"

(***************************************************************************)
(* Memory.  Flash is kept sparse: a byte that no record of the firmware    *)
(* image covers reads 0xFF (erased flash).  An access outside the          *)
(* allocated arrays is undefined in C: the machine is marked as faulted    *)
(* and the driver action that would perform it is not taken.               *)
(***************************************************************************)
InFlash(m, a) == a >= 0 /\ a <= m.flashend
PmByte(m, a) == IF a \in DOMAIN m.pm THEN m.pm[a] ELSE 255
MpmByte(m, a) == IF a \in DOMAIN m.mpm THEN m.mpm[a] ELSE 255
PmWord(m, a) == PmByte(m, a) + 256 * PmByte(m, a + 1)
InDm(a) == a \in DmAddrs
Fault(m) == [m EXCEPT !.fault = TRUE]
DmRead(m, a) == IF InDm(a) THEN m.dm[a] ELSE 0
DmWrite(m, a, v) == IF InDm(a) THEN [m EXCEPT !.dm[a] = v] ELSE Fault(m)
PcAdd(m, d) == [m EXCEPT !.pc = @ + d]
Merge(f, g) == [a \in (DOMAIN f) \cup (DOMAIN g) |-> IF a \in DOMAIN g THEN g[a] ELSE f[a]]

(***************************************************************************)
(* Flag engine: MSIM_AVR_UpdateSREGFlag / MSIM_AVR_ReadSREGFlag.           *)
(***************************************************************************)
MSIM_AVR_ReadSREGFlag(m, flag) == Bit(m.dm[SREG_ADDR], flag)

MSIM_AVR_UpdateSREGFlag(m, flag, set_f) ==
    LET old == m.dm[SREG_ADDR]
        cleared == old - Bit(old, flag) * (2 ^ flag)
    IN  [m EXCEPT !.dm[SREG_ADDR] = IF set_f # 0 THEN cleared + 2 ^ flag ELSE cleared]

(***************************************************************************)
(* Stack access primitive: MSIM_AVR_StackPush / MSIM_AVR_StackPop.         *)
(***************************************************************************)
StackPointer(m) == m.dm[SPL_ADDR] + 256 * m.dm[SPH_ADDR]

SetStackPointer(m, sp) ==
    [m EXCEPT !.dm[SPL_ADDR] = sp % 256, !.dm[SPH_ADDR] = (sp \div 256) % 256]

MSIM_AVR_StackPush(m, val) ==
    LET sp == StackPointer(m)
    IN  IF InDm(sp)
        THEN SetStackPointer([m EXCEPT !.dm[sp] = val], (sp + 65535) % 65536)
        ELSE Fault(m)

\* the byte a pop returns, and the machine after the pop
StackTop(m) == DmRead(m, (StackPointer(m) + 1) % 65536)
MSIM_AVR_StackPop(m) ==
    LET sp == (StackPointer(m) + 1) % 65536
    IN  IF InDm(sp) THEN SetStackPointer(m, sp) ELSE Fault(m)

\* SKIP_CYCLES with the final decrement lost: the last cycle leaves ic_left
SKIP_CYCLES_NoDrain(m, cond, cycl) ==
    IF m.in_mcinst = 0 /\ cond
    THEN [skip |-> TRUE, m |-> [m EXCEPT !.in_mcinst = 1, !.ic_left = cycl]]
    ELSE IF m.in_mcinst # 0 /\ m.ic_left > 1
    THEN [skip |-> TRUE, m |-> [m EXCEPT !.ic_left = @ - 1]]
    ELSE [skip |-> FALSE, m |-> [m EXCEPT !.in_mcinst = 0]]

(***************************************************************************)
(* SKIP_CYCLES(mcu, cond, cycl).  The macro returns from the calling       *)
(* exec_* function on the first and on the intermediate cycles; .skip      *)
(* tells whether it returned, .m is the machine it leaves.                 *)
(***************************************************************************)
SKIP_CYCLES(m, cond, cycl) ==
    IF m.in_mcinst = 0 /\ cond
    THEN [skip |-> TRUE, m |-> [m EXCEPT !.in_mcinst = 1, !.ic_left = cycl]]
    ELSE IF m.in_mcinst # 0 /\ m.ic_left # 0 /\ m.ic_left - 1 # 0
    THEN [skip |-> TRUE, m |-> [m EXCEPT !.ic_left = @ - 1]]
    ELSE IF m.in_mcinst # 0 /\ m.ic_left # 0
    THEN [skip |-> FALSE, m |-> [m EXCEPT !.ic_left = @ - 1, !.in_mcinst = 0]]
    ELSE [skip |-> FALSE, m |-> [m EXCEPT !.in_mcinst = 0]]

(***************************************************************************)
(* Operand fields of an instruction word.                                  *)
(***************************************************************************)
\* (inst & 0x01F0) >> 4
RdField(inst) == (inst \div 16) % 32
\* (inst & 0x0F) | ((inst & 0x0200) >> 5)
RrField(inst) == (inst % 16) + 16 * Bit(inst, 9)
\* c = inst & 0x0FFF; if (c >= 2048) c -= 4096;
Disp12(inst) == IF inst % 4096 >= 2048 THEN (inst % 4096) - 4096 ELSE inst % 4096
\* the 7-bit field taken as an unsigned number
Disp7_Unsigned(inst) == (inst \div 8) % 128
\* c = (inst >> 3) & 0x7F; if (c > 63) c -= 128;
Disp7(inst) == IF (inst \div 8) % 128 > 63 THEN ((inst \div 8) % 128) - 128 ELSE (inst \div 8) % 128
\* (((inst >> 3) & 0x3E) | (inst & 1)) << 16 | second word
LongAddr(inst, w2) == w2 + 65536 * BitOr(BitAnd(Shr(inst, 3), 62), inst % 2)

\* a push of the return address that ignores the third byte of a 22-bit PC
PushReturn_TwoBytes(m, pc) ==
    MSIM_AVR_StackPush(MSIM_AVR_StackPush(m, pc % 256), (pc \div 256) % 256)

\* pushes the two or three bytes of a return address, low byte first
PushReturn(m, pc) ==
    LET m1 == MSIM_AVR_StackPush(m, pc % 256)
        m2 == MSIM_AVR_StackPush(m1, (pc \div 256) % 256)
    IN  IF m.pc_bits > 16 THEN MSIM_AVR_StackPush(m2, (pc \div 65536) % 256) ELSE m2

(***************************************************************************)
(* Jumps, calls and returns.                                               *)
(***************************************************************************)
exec_rjmp(m, inst) ==
    LET s == SKIP_CYCLES(m, TRUE, 1)
    IN  IF s.skip THEN s.m
        ELSE [s.m EXCEPT !.pc = @ + (Disp12(inst) + 1) * 2]

exec_rcall(m, inst) ==
    LET cycl == IF m.reduced_core = 0 /\ m.xmega # 0 THEN (IF m.pc_bits > 16 THEN 2 ELSE 1)
                ELSE IF m.reduced_core = 0 /\ m.xmega = 0 THEN (IF m.pc_bits > 16 THEN 3 ELSE 2)
                ELSE 3
        s == SKIP_CYCLES(m, TRUE, cycl)
    IN  IF s.skip THEN s.m
        ELSE [PushReturn(s.m, m.pc + 2) EXCEPT !.pc = m.pc + (Disp12(inst) + 1) * 2]

\* RET that takes the low byte of the address from the stack first
exec_ret_LowFirst(m) ==
    LET s == SKIP_CYCLES(m, TRUE, IF m.pc_bits > 16 THEN 4 ELSE 3)
        m0 == s.m
        al == StackTop(m0)
        m1 == MSIM_AVR_StackPop(m0)
        ah == StackTop(m1)
        m2 == MSIM_AVR_StackPop(m1)
        ae == IF m.pc_bits > 16 THEN StackTop(m2) ELSE 0
        m3 == IF m.pc_bits > 16 THEN MSIM_AVR_StackPop(m2) ELSE m2
    IN  IF s.skip THEN s.m
        ELSE [m3 EXCEPT !.pc = Shl(ae, 16) + Shl(ah, 8) + al]

exec_ret(m) ==
    LET s == SKIP_CYCLES(m, TRUE, IF m.pc_bits > 16 THEN 4 ELSE 3)
        m0 == s.m
        ae == IF m.pc_bits > 16 THEN StackTop(m0) ELSE 0
        m1 == IF m.pc_bits > 16 THEN MSIM_AVR_StackPop(m0) ELSE m0
        ah == StackTop(m1)
        m2 == MSIM_AVR_StackPop(m1)
        al == StackTop(m2)
        m3 == MSIM_AVR_StackPop(m2)
    IN  IF s.skip THEN s.m
        ELSE [m3 EXCEPT !.pc = Shl(ae, 16) + Shl(ah, 8) + al]

\* exec_call carries its own copy of the cycle bookkeeping
exec_call(m, inst_msb) ==
    IF m.in_mcinst = 0
    THEN [m EXCEPT !.in_mcinst = 1,
                   !.ic_left = IF m.xmega = 0
                               THEN (IF m.pc_bits > 16 THEN 4 ELSE 3)
                               ELSE (IF m.pc_bits > 16 THEN 3 ELSE 2)]
    ELSE IF m.ic_left # 0 /\ m.ic_left - 1 # 0
    THEN [m EXCEPT !.ic_left = @ - 1]
    ELSE LET m0 == [m EXCEPT !.ic_left = IF @ # 0 THEN @ - 1 ELSE @, !.in_mcinst = 0]
             c == LongAddr(inst_msb, PmWord(m, m.pc + 2))
         IN  IF ~InFlash(m, m.pc + 3) THEN Fault(m)
             ELSE [PushReturn(m0, m.pc + 4) EXCEPT !.pc = Shl(c, 1)]

exec_jmp(m, inst) ==
    LET s == SKIP_CYCLES(m, TRUE, 2)
        c == LongAddr(inst, PmWord(m, m.pc + 2))
    IN  IF s.skip THEN s.m
        ELSE IF ~InFlash(m, m.pc + 3) THEN Fault(m)
        ELSE [s.m EXCEPT !.pc = Shl(c, 1)]

exec_icall(m) ==
    LET cycl == IF m.xmega # 0 THEN (IF m.pc_bits > 16 THEN 2 ELSE 1)
                ELSE (IF m.pc_bits > 16 THEN 3 ELSE 2)
        s == SKIP_CYCLES(m, TRUE, cycl)
        zh == m.dm[REG_ZH]
        zl == m.dm[REG_ZL]
    IN  IF s.skip THEN s.m
        ELSE [PushReturn(s.m, m.pc + 2) EXCEPT !.pc = Shl(zh, 8) + zl]

exec_ijmp(m) ==
    LET s == SKIP_CYCLES(m, TRUE, 1)
        zh == m.dm[REG_ZH]
        zl == m.dm[REG_ZL]
    IN  IF s.skip THEN s.m
        ELSE [s.m EXCEPT !.pc = Shl(zh, 8) + zl]

\* EICALL that steps over the instruction when the device cannot run it
exec_eicall_StepsOver(m) ==
    LET err == m.eind = NULL \/ m.pc_bits < 22
        s == SKIP_CYCLES(m, TRUE, IF m.xmega # 0 THEN 2 ELSE 3)
        eind == m.dm[m.eind]
    IN  IF err THEN [m EXCEPT !.state = AVR_MSIM_TESTFAIL, !.pc = @ + 2]
        ELSE IF s.skip THEN s.m
        ELSE [PushReturn(s.m, m.pc + 2) EXCEPT
                 !.pc = Shl(eind, 16) + Shl(m.dm[REG_ZH], 8) + m.dm[REG_ZL]]

exec_eicall(m) ==
    LET err == m.eind = NULL \/ m.pc_bits < 22
        s == SKIP_CYCLES(m, TRUE, IF m.xmega # 0 THEN 2 ELSE 3)
        zh == m.dm[REG_ZH]
        zl == m.dm[REG_ZL]
        eind == m.dm[m.eind]
    IN  IF err THEN [m EXCEPT !.state = AVR_MSIM_TESTFAIL]
        ELSE IF s.skip THEN s.m
        ELSE [PushReturn(s.m, m.pc + 2) EXCEPT !.pc = Shl(eind, 16) + Shl(zh, 8) + zl]

exec_eijmp(m) ==
    LET err == m.eind = NULL
        s == SKIP_CYCLES(m, TRUE, 1)
        zh == m.dm[REG_ZH]
        zl == m.dm[REG_ZL]
        eind == m.dm[m.eind]
    IN  IF err THEN [m EXCEPT !.state = AVR_MSIM_TESTFAIL]
        ELSE IF s.skip THEN s.m
        ELSE [s.m EXCEPT !.pc = Shl(eind, 16) + Shl(zh, 8) + zl]

(***************************************************************************)
(* exec_reti builds PC from two or three MSIM_AVR_StackPop calls that are  *)
(* operands of one | expression.  C leaves the order in which the calls    *)
(* are made to the compiler; order lists the operands ("e" the byte        *)
(* shifted by 16, "h" the byte shifted by 8, "l" the low byte) in the      *)
(* order the build evaluates them.                                         *)
(***************************************************************************)
exec_reti(m, order) ==
    LET s == SKIP_CYCLES(m, TRUE, IF m.pc_bits > 16 THEN 4 ELSE 3)
        ops == SelectSeq(order, LAMBDA o : m.pc_bits > 16 \/ o # "e")
        m0 == s.m
        v1 == StackTop(m0)
        m1 == MSIM_AVR_StackPop(m0)
        v2 == StackTop(m1)
        m2 == MSIM_AVR_StackPop(m1)
        v3 == IF Len(ops) > 2 THEN StackTop(m2) ELSE 0
        m3 == IF Len(ops) > 2 THEN MSIM_AVR_StackPop(m2) ELSE m2
        vals == <<v1, v2, v3>>
        Val(o) == vals[CHOOSE i \in 1 .. Len(ops) : ops[i] = o]
        pc == (IF m.pc_bits > 16 THEN Shl(Val("e"), 16) ELSE 0) + Shl(Val("h"), 8) + Val("l")
        m4 == [m3 EXCEPT !.pc = pc]
        m5 == IF m.xmega = 0 THEN MSIM_AVR_UpdateSREGFlag(m4, AVR_SREG_GLOB_INT, 1) ELSE m4
    IN  IF s.skip THEN s.m
        ELSE [m5 EXCEPT !.exec_main = 1]

(***************************************************************************)
(* MSIM_AVR_Is32: does this word start a 32-bit instruction?               *)
(***************************************************************************)
MSIM_AVR_Is32(inst) ==
    LET i == BitAnd(inst, \hFC0F)
    IN  i = \h9200 \/ i = \h9000 \/ i = \h940C \/ i = \h940D \/ i = \h940E \/ i = \h940F

(***************************************************************************)
(* Arithmetic.                                                             *)
(***************************************************************************)
\* the six flag updates ADD and ADC share, in the order of the source
AddFlags(m, rd, rr, r) ==
    LET buf == BitOr(BitOr(BitAnd(rd, rr), BitAnd(rr, Not8(r))), BitAnd(Not8(r), rd))
        ovf == BitOr(BitAnd(BitAnd(rd, rr), Not8(r)), BitAnd(BitAnd(Not8(rd), Not8(rr)), r))
        m1 == MSIM_AVR_UpdateSREGFlag(m, AVR_SREG_CARRY, Bit(buf, 7))
        m2 == MSIM_AVR_UpdateSREGFlag(m1, AVR_SREG_ZERO, IF r = 0 THEN 1 ELSE 0)
        m3 == MSIM_AVR_UpdateSREGFlag(m2, AVR_SREG_NEGATIVE, Bit(r, 7))
        m4 == MSIM_AVR_UpdateSREGFlag(m3, AVR_SREG_TWOSCOM_OF, Bit(ovf, 7))
        m5 == MSIM_AVR_UpdateSREGFlag(m4, AVR_SREG_SIGN,
                  BitXor(MSIM_AVR_ReadSREGFlag(m4, AVR_SREG_NEGATIVE),
                         MSIM_AVR_ReadSREGFlag(m4, AVR_SREG_TWOSCOM_OF)))
    IN  MSIM_AVR_UpdateSREGFlag(m5, AVR_SREG_HALF_CARRY, Bit(buf, 3))

\* ADC that forgets the carry flag
exec_adc_rol_NoCarry(m, inst) ==
    LET rd_addr == RdField(inst)
        rd == m.dm[rd_addr]
        rr == m.dm[RrField(inst)]
        r == U8(rd + rr)
    IN  PcAdd(AddFlags([m EXCEPT !.dm[rd_addr] = r], rd, rr, r), 2)

exec_adc_rol(m, inst) ==
    LET rd_addr == RdField(inst)
        rr_addr == RrField(inst)
        rd == m.dm[rd_addr]
        rr == m.dm[rr_addr]
        r == U8(rd + rr + MSIM_AVR_ReadSREGFlag(m, AVR_SREG_CARRY))
    IN  PcAdd(AddFlags([m EXCEPT !.dm[rd_addr] = r], rd, rr, r), 2)

exec_add_lsl(m, inst) ==
    LET rd_addr == RdField(inst)
        rr_addr == RrField(inst)
        rd == m.dm[rd_addr]
        rr == m.dm[rr_addr]
        r == U8(rd + rr)
    IN  PcAdd(AddFlags([m EXCEPT !.dm[rd_addr] = r], rd, rr, r), 2)

(***************************************************************************)
(* Subtraction and comparison.  r is the difference as the source holds    *)
(* it: an unsigned char in exec_sub, exec_subi and exec_sbc, an int (which *)
(* may be negative) in exec_cp, exec_cpi and exec_cpc.  The bit tests of   *)
(* the source look at bits 3 and 7 only, which the low byte of r decides;  *)
(* the test !r looks at the whole value.                                   *)
(***************************************************************************)
\* buf = (~rd & rr) | (rr & r) | (r & ~rd), low byte
SubAux(rd, rr, r) ==
    BitOr(BitOr(BitAnd(Not8(rd), rr), BitAnd(rr, U8(r))), BitAnd(U8(r), Not8(rd)))

\* (rd & ~rr & ~r) | (~rd & rr & r), low byte
SubOvf(rd, rr, r) ==
    BitOr(BitAnd(BitAnd(rd, Not8(rr)), Not8(U8(r))), BitAnd(BitAnd(Not8(rd), rr), U8(r)))

\* the updates of N, V and S = N ^ V, which every member of the family makes
\* in this order
SubNVS(m, rd, rr, r) ==
    LET m1 == MSIM_AVR_UpdateSREGFlag(m, AVR_SREG_NEGATIVE, Bit(U8(r), 7))
        m2 == MSIM_AVR_UpdateSREGFlag(m1, AVR_SREG_TWOSCOM_OF, Bit(SubOvf(rd, rr, r), 7))
    IN  MSIM_AVR_UpdateSREGFlag(m2, AVR_SREG_SIGN,
            BitXor(MSIM_AVR_ReadSREGFlag(m2, AVR_SREG_NEGATIVE),
                   MSIM_AVR_ReadSREGFlag(m2, AVR_SREG_TWOSCOM_OF)))

\* the immediate of CPI, SUBI and LDI: (inst & 0x0F) | ((inst & 0x0F00) >> 4)
Imm8(inst) == (inst % 16) + 16 * ((inst \div 256) % 16)

exec_cpi(m, inst) ==
    LET rd_addr == ((inst \div 16) % 16) + 16
        c == Imm8(inst)
        rd == m.dm[rd_addr]
        r == rd - c
        buf == SubAux(rd, c, r)
        m1 == MSIM_AVR_UpdateSREGFlag(PcAdd(m, 2), AVR_SREG_CARRY, Bit(buf, 7))
        m2 == SubNVS(m1, rd, c, r)
        m3 == MSIM_AVR_UpdateSREGFlag(m2, AVR_SREG_HALF_CARRY, Bit(buf, 3))
    IN  MSIM_AVR_UpdateSREGFlag(m3, AVR_SREG_ZERO, IF r = 0 THEN 1 ELSE 0)

exec_cpc(m, inst) ==
    LET rd == m.dm[RdField(inst)]
        rr == m.dm[RrField(inst)]
        r == rd - rr - MSIM_AVR_ReadSREGFlag(m, AVR_SREG_CARRY)
        buf == SubAux(rd, rr, r)
        m1 == MSIM_AVR_UpdateSREGFlag(PcAdd(m, 2), AVR_SREG_CARRY, Bit(buf, 7))
        m2 == MSIM_AVR_UpdateSREGFlag(m1, AVR_SREG_HALF_CARRY, Bit(buf, 3))
        m3 == SubNVS(m2, rd, rr, r)
    IN  IF r # 0 THEN MSIM_AVR_UpdateSREGFlag(m3, AVR_SREG_ZERO, 0) ELSE m3

exec_cp(m, inst) ==
    LET rd == m.dm[RdField(inst)]
        rr == m.dm[RrField(inst)]
        r == rd - rr
        buf == SubAux(rd, rr, r)
        m1 == MSIM_AVR_UpdateSREGFlag(PcAdd(m, 2), AVR_SREG_CARRY, Bit(buf, 7))
        m2 == MSIM_AVR_UpdateSREGFlag(m1, AVR_SREG_HALF_CARRY, Bit(buf, 3))
        m3 == SubNVS(m2, rd, rr, r)
    IN  MSIM_AVR_UpdateSREGFlag(m3, AVR_SREG_ZERO, IF r = 0 THEN 1 ELSE 0)

\* exec_sub computes r and the flags; it has no assignment to dm[rda]
exec_sub(m, inst) ==
    LET rd == m.dm[RdField(inst)]
        rr == m.dm[RrField(inst)]
        r == U8(rd - rr)
        buf == SubAux(rd, rr, r)
        m1 == MSIM_AVR_UpdateSREGFlag(PcAdd(m, 2), AVR_SREG_CARRY, Bit(buf, 7))
        m2 == MSIM_AVR_UpdateSREGFlag(m1, AVR_SREG_ZERO, IF r = 0 THEN 1 ELSE 0)
        m3 == SubNVS(m2, rd, rr, r)
    IN  MSIM_AVR_UpdateSREGFlag(m3, AVR_SREG_HALF_CARRY, Bit(buf, 3))

exec_subi(m, inst) ==
    LET rd_addr == (inst \div 16) % 16
        c == Imm8(inst)
        rd == m.dm[rd_addr + 16]
        r == U8(rd - c)
        buf == SubAux(rd, c, r)
        m0 == PcAdd([m EXCEPT !.dm[rd_addr + 16] = r], 2)
        m1 == MSIM_AVR_UpdateSREGFlag(m0, AVR_SREG_CARRY, Bit(buf, 7))
        m2 == MSIM_AVR_UpdateSREGFlag(m1, AVR_SREG_HALF_CARRY, Bit(buf, 3))
        m3 == SubNVS(m2, rd, c, r)
    IN  MSIM_AVR_UpdateSREGFlag(m3, AVR_SREG_ZERO, IF r = 0 THEN 1 ELSE 0)

exec_sbc(m, inst) ==
    LET rda == RdField(inst)
        rd == m.dm[rda]
        rr == m.dm[RrField(inst)]
        r == U8(rd - rr - MSIM_AVR_ReadSREGFlag(m, AVR_SREG_CARRY))
        buf == SubAux(rd, rr, r)
        m0 == PcAdd([m EXCEPT !.dm[rda] = r], 2)
        m1 == MSIM_AVR_UpdateSREGFlag(m0, AVR_SREG_CARRY, Bit(buf, 7))
        m2 == IF r # 0 THEN MSIM_AVR_UpdateSREGFlag(m1, AVR_SREG_ZERO, 0) ELSE m1
        m3 == SubNVS(m2, rd, rr, r)
    IN  MSIM_AVR_UpdateSREGFlag(m3, AVR_SREG_HALF_CARRY, Bit(buf, 3))

\* ADIW.  r is an unsigned int: the sum is not reduced to sixteen bits
\* before the flags are computed from it
\* r is an unsigned int: below zero it stands for r + 2^32, whose bits
\* 0 .. 30 Bit, Shr and % give
exec_sbiw(m, inst) ==
    LET s == SKIP_CYCLES(m, TRUE, 1)
        rdl_addr == <<24, 26, 28, 30>>[((inst \div 16) % 4) + 1]
        rdh_addr == U8(rdl_addr + 1)
        c == BitOr(BitAnd(Shr(inst, 2), \h30), BitAnd(inst, \h0F))
        buf == BitOr(Shl(m.dm[rdh_addr], 8), m.dm[rdl_addr])
        r == buf - c
        buf15 == Bit(r, 15) * (1 - Bit(buf, 15))
        m1 == MSIM_AVR_UpdateSREGFlag(s.m, AVR_SREG_CARRY, buf15)
        m2 == MSIM_AVR_UpdateSREGFlag(m1, AVR_SREG_NEGATIVE, Bit(r, 15))
        m3 == MSIM_AVR_UpdateSREGFlag(m2, AVR_SREG_TWOSCOM_OF, buf15)
        m4 == MSIM_AVR_UpdateSREGFlag(m3, AVR_SREG_SIGN,
                  BitXor(MSIM_AVR_ReadSREGFlag(m3, AVR_SREG_NEGATIVE),
                         MSIM_AVR_ReadSREGFlag(m3, AVR_SREG_TWOSCOM_OF)))
        m5 == MSIM_AVR_UpdateSREGFlag(m4, AVR_SREG_ZERO, IF r = 0 THEN 1 ELSE 0)
    IN  IF s.skip THEN s.m
        ELSE PcAdd([m5 EXCEPT !.dm[rdh_addr] = Shr(r, 8) % 256, !.dm[rdl_addr] = r % 256], 2)

exec_adiw(m, inst) ==
    LET s == SKIP_CYCLES(m, TRUE, 1)
        rdl_addr == <<24, 26, 28, 30>>[((inst \div 16) % 4) + 1]
        rdh_addr == U8(rdl_addr + 1)
        c == BitOr(BitAnd(Shr(inst, 2), \h30), BitAnd(inst, \h0F))
        rd == BitOr(Shl(m.dm[rdh_addr], 8), m.dm[rdl_addr])
        r == rd + c
        m1 == MSIM_AVR_UpdateSREGFlag(s.m, AVR_SREG_CARRY, (1 - Bit(r, 15)) * Bit(rd, 15))
        m2 == MSIM_AVR_UpdateSREGFlag(m1, AVR_SREG_NEGATIVE, Bit(r, 15))
        m3 == MSIM_AVR_UpdateSREGFlag(m2, AVR_SREG_TWOSCOM_OF, Bit(r, 15) * (1 - Bit(rd, 15)))
        m4 == MSIM_AVR_UpdateSREGFlag(m3, AVR_SREG_SIGN,
                  BitXor(MSIM_AVR_ReadSREGFlag(m3, AVR_SREG_NEGATIVE),
                         MSIM_AVR_ReadSREGFlag(m3, AVR_SREG_TWOSCOM_OF)))
        m5 == MSIM_AVR_UpdateSREGFlag(m4, AVR_SREG_ZERO, IF r = 0 THEN 1 ELSE 0)
    IN  IF s.skip THEN s.m
        ELSE PcAdd([m5 EXCEPT !.dm[rdh_addr] = Shr(r, 8) % 256, !.dm[rdl_addr] = r % 256], 2)

\* the updates of Z, N, V and S that INC and DEC share; v is the V flag
IncDecFlags(m, r, v) ==
    LET m1 == MSIM_AVR_UpdateSREGFlag(m, AVR_SREG_ZERO, IF r = 0 THEN 1 ELSE 0)
        m2 == MSIM_AVR_UpdateSREGFlag(m1, AVR_SREG_NEGATIVE, Bit(r, 7))
        m3 == MSIM_AVR_UpdateSREGFlag(m2, AVR_SREG_TWOSCOM_OF, v)
    IN  MSIM_AVR_UpdateSREGFlag(m3, AVR_SREG_SIGN,
            BitXor(MSIM_AVR_ReadSREGFlag(m3, AVR_SREG_NEGATIVE),
                   MSIM_AVR_ReadSREGFlag(m3, AVR_SREG_TWOSCOM_OF)))

\* DEC that reports the overflow of INC (at 0x7F instead of 0x80)
exec_dec_OverflowOfInc(m, inst) ==
    LET rd_addr == (inst \div 16) % 32
        rd == m.dm[rd_addr]
        r == U8(rd + 255)
    IN  IncDecFlags(PcAdd([m EXCEPT !.dm[rd_addr] = r], 2), r, IF rd = \h7F THEN 1 ELSE 0)

exec_dec(m, inst) ==
    LET rd_addr == (inst \div 16) % 32
        rd == m.dm[rd_addr]
        r == U8(rd + 255)
    IN  IncDecFlags(PcAdd([m EXCEPT !.dm[rd_addr] = r], 2), r, IF rd = \h80 THEN 1 ELSE 0)

\* C, Z and N as given, then V = N xor C and S = N xor V
ShiftFlags(m, c, r, n) ==
    LET m1 == MSIM_AVR_UpdateSREGFlag(m, AVR_SREG_CARRY, c)
        m2 == MSIM_AVR_UpdateSREGFlag(m1, AVR_SREG_ZERO, IF r = 0 THEN 1 ELSE 0)
        m3 == MSIM_AVR_UpdateSREGFlag(m2, AVR_SREG_NEGATIVE, n)
        m4 == MSIM_AVR_UpdateSREGFlag(m3, AVR_SREG_TWOSCOM_OF,
                  BitXor(MSIM_AVR_ReadSREGFlag(m3, AVR_SREG_NEGATIVE),
                         MSIM_AVR_ReadSREGFlag(m3, AVR_SREG_CARRY)))
    IN  MSIM_AVR_UpdateSREGFlag(m4, AVR_SREG_SIGN,
            BitXor(MSIM_AVR_ReadSREGFlag(m4, AVR_SREG_NEGATIVE),
                   MSIM_AVR_ReadSREGFlag(m4, AVR_SREG_TWOSCOM_OF)))

exec_asr_Logical(m, inst) ==
    LET rd_addr == Shr(BitAnd(inst, \h1F0), 4)
        rd == m.dm[rd_addr]
        r == Shr(rd, 1)
    IN  PcAdd(ShiftFlags([m EXCEPT !.dm[rd_addr] = r], rd % 2, r, Bit(rd, 7)), 2)

exec_asr(m, inst) ==
    LET rd_addr == Shr(BitAnd(inst, \h1F0), 4)
        rd == m.dm[rd_addr]
        msb_orig == Bit(rd, 7)
        lsb_orig == rd % 2
        r == IF msb_orig = 1 THEN BitOr(Shr(rd, 1), 128) ELSE BitAnd(Shr(rd, 1), 127)
    IN  PcAdd(ShiftFlags([m EXCEPT !.dm[rd_addr] = r], lsb_orig, r, msb_orig), 2)

exec_lsr(m, inst) ==
    LET rd_addr == Shr(inst, 4) % 32
        rd == m.dm[rd_addr]
        r == Shr(rd, 1) % 256
    IN  ShiftFlags(PcAdd([m EXCEPT !.dm[rd_addr] = r], 2), rd % 2, r, 0)

exec_ror(m, inst) ==
    LET c == MSIM_AVR_ReadSREGFlag(m, AVR_SREG_CARRY)
        rd_addr == Shr(inst, 4) % 32
        rd == m.dm[rd_addr]
        r == BitOr(BitAnd(Shr(rd, 1), \h7F), BitAnd(Shl(c, 7), \h80))
        m1 == ShiftFlags(PcAdd([m EXCEPT !.dm[rd_addr] = r], 2), rd % 2, r, Bit(r, 7))
    IN  MSIM_AVR_UpdateSREGFlag(m1, AVR_SREG_HALF_CARRY, Bit(rd, 3))

exec_inc(m, inst) ==
    LET rd_addr == (inst \div 16) % 32
        rd == m.dm[rd_addr]
        r == U8(rd + 1)
    IN  IncDecFlags(PcAdd([m EXCEPT !.dm[rd_addr] = r], 2), r, IF rd = \h7F THEN 1 ELSE 0)

exec_ldi(m, inst) ==
    LET rd_off == (inst \div 16) % 16
        c == (inst % 16) + 16 * ((inst \div 256) % 16)
    IN  PcAdd([m EXCEPT !.dm[16 + rd_off] = c], 2)

exec_mov(m, inst) ==
    PcAdd([m EXCEPT !.dm[RdField(inst)] = m.dm[RrField(inst)]], 2)

\* IN and OUT that both write the I/O location
exec_in_out_AlwaysOut(m, inst, reg, io_loc) ==
    PcAdd([m EXCEPT !.dm[io_loc + m.sfr_off] = m.dm[reg]], 2)

exec_in_out(m, inst, reg, io_loc) ==
    LET a == io_loc + m.sfr_off
    IN  IF BitAnd(inst, \hF800) = \hB000
        THEN PcAdd([m EXCEPT !.dm[reg] = m.dm[a]], 2)
        ELSE PcAdd([m EXCEPT !.dm[a] = m.dm[reg]], 2)

\* ST through the pointer pair at dm[addr_low], dm[addr_high]: unchanged,
\* post-incremented or pre-decremented pointer by inst & 0x03
exec_st(m, inst, addr_low, addr_high) ==
    LET addr == BitOr(m.dm[addr_low], Shl(m.dm[addr_high], 8))
        r == RdField(inst)
        mode == inst % 4
        s == IF mode = 2 \/ (m.xmega = 0 /\ m.reduced_core = 0)
             THEN SKIP_CYCLES(m, TRUE, 1)
             ELSE [skip |-> FALSE, m |-> m]
        \* addr is an unsigned int: a value of -1 stands for the wrapped UINT_MAX
        pre == addr - 1
        m1 == DmWrite(s.m, addr, m.dm[r])
        m2 == [m1 EXCEPT !.dm[addr_low] = (addr + 1) % 256,
                         !.dm[addr_high] = ((addr + 1) \div 256) % 256]
        m3 == [s.m EXCEPT !.dm[addr_low] = pre % 256, !.dm[addr_high] = (pre \div 256) % 256]
    IN  IF mode = 3 THEN PcAdd(m, 2)
        ELSE IF s.skip THEN s.m
        ELSE IF mode = 0 THEN PcAdd(m1, 2)
        ELSE IF mode = 1 THEN PcAdd(m2, 2)
        ELSE PcAdd(DmWrite(m3, pre, m3.dm[r]), 2)

exec_st_x(m, inst) == exec_st(m, inst, 26, 27)
exec_st_y(m, inst) == exec_st(m, inst, 28, 29)
exec_st_z(m, inst) == exec_st(m, inst, 30, 31)

\* a load whose increment of the pointer is lost
exec_ld_NoIncrement(m, inst, addr_low, addr_high) ==
    LET addr == BitOr(m.dm[addr_low], Shl(m.dm[addr_high], 8))
    IN  IF InDm(addr) THEN PcAdd([m EXCEPT !.in_mcinst = 0, !.ic_left = 0,
                                           !.dm[RdField(inst)] = m.dm[addr]], 2)
        ELSE Fault(m)

\* LD through the pointer pair at dm[addr_low], dm[addr_high]: unchanged,
\* post-incremented or pre-decremented pointer by inst & 0x03
exec_ld(m, inst, addr_low, addr_high) ==
    LET addr == BitOr(m.dm[addr_low], Shl(m.dm[addr_high], 8))
        regd == RdField(inst)
        mode == inst % 4
        in_ram == addr <= m.ramend /\ addr >= m.ramstart
        none == [skip |-> FALSE, m |-> m]
        s == CASE mode = 0 -> IF m.xmega # 0 /\ in_ram THEN SKIP_CYCLES(m, TRUE, 1) ELSE none
               [] mode = 1 -> IF m.xmega = 0 \/ in_ram THEN SKIP_CYCLES(m, TRUE, 1) ELSE none
               [] mode = 2 -> IF m.xmega = 0 \/ in_ram THEN SKIP_CYCLES(m, TRUE, 2)
                              ELSE IF addr > m.ramend /\ addr < m.ramstart
                              THEN SKIP_CYCLES(m, TRUE, 1)
                              ELSE none
               [] OTHER -> none
        \* addr is an unsigned int: a value of -1 stands for the wrapped UINT_MAX
        pre == addr - 1
        m1 == [s.m EXCEPT !.dm[regd] = m.dm[addr]]
        m2 == [m1 EXCEPT !.dm[addr_low] = (addr + 1) % 256,
                         !.dm[addr_high] = ((addr + 1) \div 256) % 256]
        m3 == [s.m EXCEPT !.dm[addr_low] = pre % 256, !.dm[addr_high] = (pre \div 256) % 256]
    IN  IF mode = 3 THEN PcAdd(m, 2)
        ELSE IF s.skip THEN s.m
        ELSE IF mode = 0 THEN (IF InDm(addr) THEN PcAdd(m1, 2) ELSE Fault(s.m))
        ELSE IF mode = 1 THEN (IF InDm(addr) THEN PcAdd(m2, 2) ELSE Fault(s.m))
        ELSE IF InDm(pre) THEN PcAdd([m3 EXCEPT !.dm[regd] = m3.dm[pre]], 2)
        ELSE Fault(m3)

exec_ld_x(m, inst) == exec_ld(m, inst, 26, 27)
exec_ld_y(m, inst) == exec_ld(m, inst, 28, 29)
exec_ld_z(m, inst) == exec_ld(m, inst, 30, 31)

\* (inst & 0x07) | ((inst & 0x0C00) >> 7) | ((inst & 0x2000) >> 8)
DispField(inst) ==
    BitOr(BitOr(BitAnd(inst, 7), Shr(BitAnd(inst, \h0C00), 7)), Shr(BitAnd(inst, \h2000), 8))

\* exec_ld_ydisp and exec_ld_zdisp: the same body on dm[28], dm[29] and on
\* dm[30], dm[31]
exec_ld_disp(m, inst, low, high) ==
    LET addr == BitOr(m.dm[low], Shl(m.dm[high], 8))
        s == IF m.xmega = 0 THEN SKIP_CYCLES(m, TRUE, 1)
             ELSE IF addr <= m.ramend /\ addr >= m.ramstart THEN SKIP_CYCLES(m, TRUE, 2)
             ELSE IF addr > m.ramend /\ addr < m.ramstart THEN SKIP_CYCLES(m, TRUE, 1)
             ELSE [skip |-> FALSE, m |-> m]
        regd == RdField(inst)
        disp == DispField(inst)
    IN  IF s.skip THEN s.m
        ELSE IF InDm(addr + disp) THEN PcAdd([s.m EXCEPT !.dm[regd] = m.dm[addr + disp]], 2)
        ELSE Fault(s.m)

exec_ld_ydisp(m, inst) == exec_ld_disp(m, inst, 28, 29)
exec_ld_zdisp(m, inst) == exec_ld_disp(m, inst, 30, 31)

\* exec_st_ydisp and exec_st_zdisp
exec_st_disp(m, inst, low, high) ==
    LET s == SKIP_CYCLES(m, TRUE, 1)
        addr == BitOr(m.dm[low], Shl(m.dm[high], 8))
        regr == RdField(inst)
        disp == DispField(inst)
    IN  IF s.skip THEN s.m
        ELSE PcAdd(DmWrite(s.m, addr + disp, m.dm[regr]), 2)

exec_st_ydisp(m, inst) == exec_st_disp(m, inst, 28, 29)
exec_st_zdisp(m, inst) == exec_st_disp(m, inst, 30, 31)

\* LDS (16-bit): a one-cycle load from a 7-bit address packed in the word
exec_lds16(m, inst) ==
    LET addr == BitOr(BitOr(BitAnd(Shr(65535 - (inst % 65536), 1), \h80), BitAnd(Shr(inst, 2), \h40)),
                      BitOr(BitAnd(Shr(inst, 5), \h30), BitAnd(inst, \h0F)))
        rd_addr == ((inst \div 16) % 16) + 16
    IN  IF InDm(addr) THEN PcAdd([m EXCEPT !.dm[rd_addr] = m.dm[addr]], 2)
        ELSE Fault(m)

exec_bclr(m, inst) ==
    LET bit == (inst \div 16) % 8
    IN  PcAdd([m EXCEPT !.dm[SREG_ADDR] = BitAnd(@, Not8(Shl(1, bit)))], 2)

exec_bset(m, inst) ==
    LET bit == (inst \div 16) % 8
    IN  PcAdd([m EXCEPT !.dm[SREG_ADDR] = BitOr(@, Shl(1, bit))], 2)

(***************************************************************************)
(* Conditional branches and skips.                                         *)
(***************************************************************************)
exec_brbc(m, inst) ==
    LET cond == Bit(m.dm[SREG_ADDR], inst % 8)
        s == SKIP_CYCLES(m, cond = 0, 1)
    IN  IF s.skip THEN s.m
        ELSE IF cond = 0 THEN PcAdd(s.m, (Disp7(inst) + 1) * 2)
        ELSE PcAdd(s.m, 2)

\* BRBS that spends its extra cycle whether it branches or not
exec_brbs_AlwaysTwoCycles(m, inst) ==
    LET cond == Bit(m.dm[SREG_ADDR], inst % 8)
        s == SKIP_CYCLES(m, TRUE, 1)
    IN  IF s.skip THEN s.m
        ELSE IF cond # 0 THEN PcAdd(s.m, (Disp7(inst) + 1) * 2)
        ELSE PcAdd(s.m, 2)

exec_brbs(m, inst) ==
    LET cond == Bit(m.dm[SREG_ADDR], inst % 8)
        s == SKIP_CYCLES(m, cond # 0, 1)
    IN  IF s.skip THEN s.m
        ELSE IF cond # 0 THEN PcAdd(s.m, (Disp7(inst) + 1) * 2)
        ELSE PcAdd(s.m, 2)

\* CPSE, SBRC and SBRS hand MSIM_AVR_Is32 the single byte pm[pc+2]
exec_cpse(m, inst) ==
    LET is32 == MSIM_AVR_Is32(PmByte(m, m.pc + 2))
        f == m.dm[RdField(inst)] = m.dm[RrField(inst)]
        s == SKIP_CYCLES(m, f, IF is32 THEN 2 ELSE 1)
    IN  IF ~InFlash(m, m.pc + 2) THEN Fault(m)
        ELSE IF s.skip THEN s.m
        ELSE IF f THEN PcAdd(s.m, IF is32 THEN 6 ELSE 4)
        ELSE PcAdd(s.m, 2)

exec_sbrc(m, inst) ==
    LET is32 == MSIM_AVR_Is32(PmByte(m, m.pc + 2))
        r == Bit(m.dm[RdField(inst)], inst % 8)
        s == SKIP_CYCLES(m, r = 0, IF is32 THEN 2 ELSE 1)
    IN  IF ~InFlash(m, m.pc + 2) THEN Fault(m)
        ELSE IF s.skip THEN s.m
        ELSE IF r = 0 THEN PcAdd(s.m, IF is32 THEN 6 ELSE 4)
        ELSE PcAdd(s.m, 2)

exec_sbrs(m, inst) ==
    LET is32 == MSIM_AVR_Is32(PmByte(m, m.pc + 2))
        r == Bit(m.dm[RdField(inst)], inst % 8)
        s == SKIP_CYCLES(m, r # 0, IF is32 THEN 2 ELSE 1)
    IN  IF ~InFlash(m, m.pc + 2) THEN Fault(m)
        ELSE IF s.skip THEN s.m
        ELSE IF r # 0 THEN PcAdd(s.m, IF is32 THEN 6 ELSE 4)
        ELSE PcAdd(s.m, 2)

exec_sbis_sbic(m, inst, set_bit) ==
    LET reg == ((inst \div 8) % 32) + 32
        b == inst % 8
        is32 == MSIM_AVR_Is32(PmWord(m, m.pc + 2))
        io == m.dm[reg]
        taken == \/ set_bit # 0 /\ BitAnd(io, Shl(1, b)) # 0
                 \/ set_bit = 0 /\ BitXor(io, Shl(1, b)) # 0
        s == IF taken
             THEN SKIP_CYCLES(m, TRUE, IF m.xmega # 0 THEN (IF is32 THEN 3 ELSE 2)
                                       ELSE (IF is32 THEN 2 ELSE 1))
             ELSE IF m.xmega # 0 THEN SKIP_CYCLES(m, TRUE, 1)
             ELSE [skip |-> FALSE, m |-> m]
        pc_delta == IF taken THEN (IF is32 THEN 6 ELSE 4) ELSE 2
    IN  IF ~InFlash(m, m.pc + 3) THEN Fault(m)
        ELSE IF s.skip THEN s.m
        ELSE PcAdd(s.m, pc_delta)

exec_sbi_cbi(m, inst, set_bit) ==
    LET s == IF m.reduced_core = 0 /\ m.xmega = 0
             THEN SKIP_CYCLES(m, TRUE, 1)
             ELSE [skip |-> FALSE, m |-> m]
        reg == (inst \div 8) % 32
        b == inst % 8
    IN  IF s.skip THEN s.m
        ELSE IF set_bit # 0
        THEN PcAdd([s.m EXCEPT !.dm[reg + 32] = BitOr(@, Shl(1, b))], 2)
        ELSE PcAdd([s.m EXCEPT !.dm[reg + 32] = BitAnd(@, Not8(Shl(1, b)))], 2)

exec_push_pop(m, inst, push) ==
    LET reg == (inst \div 16) % 32
        s == IF push # 0 /\ m.xmega # 0
             THEN [skip |-> FALSE, m |-> m]
             ELSE SKIP_CYCLES(m, TRUE, 1)
    IN  IF s.skip THEN s.m
        ELSE IF push # 0
        THEN PcAdd(MSIM_AVR_StackPush(s.m, m.dm[reg]), 2)
        ELSE PcAdd([MSIM_AVR_StackPop(s.m) EXCEPT !.dm[reg] = StackTop(s.m)], 2)

exec_sts(m, inst) ==
    LET s == SKIP_CYCLES(m, TRUE, 1)
        addr == PmWord(m, m.pc + 2)
        rr == RdField(inst)
    IN  IF s.skip THEN s.m
        ELSE IF ~InFlash(m, m.pc + 3) THEN Fault(m)
        ELSE PcAdd(DmWrite(s.m, addr, m.dm[rr]), 4)

exec_lds(m, inst) ==
    LET addr == PmWord(m, m.pc + 2)
        s == IF m.xmega = 0 THEN SKIP_CYCLES(m, TRUE, 1)
             ELSE SKIP_CYCLES(m, TRUE, IF addr <= m.ramend /\ addr >= m.ramstart THEN 2 ELSE 1)
        rd_addr == (inst \div 16) % 32
    IN  IF ~InFlash(m, m.pc + 3) THEN Fault(m)
        ELSE IF s.skip THEN s.m
        ELSE IF ~InDm(addr) THEN Fault(m)
        ELSE PcAdd([s.m EXCEPT !.dm[rd_addr] = m.dm[addr]], 4)

exec_elpm(m, inst) ==
    LET err == m.rampz = NULL
        s == SKIP_CYCLES(m, TRUE, 2)
        ez == m.dm[m.rampz]
        zh == m.dm[REG_ZH]
        zl == m.dm[REG_ZL]
        z == Shl(ez, 16) + Shl(zh, 8) + zl
        rda == (inst \div 16) % 32
        z1 == z + 1
        m1 == IF inst = \h95D8 THEN [s.m EXCEPT !.dm[0] = PmByte(m, z)]
              ELSE IF BitAnd(inst, \hFE0F) = \h9006 THEN [s.m EXCEPT !.dm[rda] = PmByte(m, z)]
              ELSE IF BitAnd(inst, \hFE0F) = \h9007
              THEN [[[[s.m EXCEPT !.dm[rda] = PmByte(m, z)]
                           EXCEPT !.dm[m.rampz] = (z1 \div 65536) % 256]
                           EXCEPT !.dm[REG_ZH] = (z1 \div 256) % 256]
                           EXCEPT !.dm[REG_ZL] = z1 % 256]
              ELSE s.m
    IN  IF err THEN [m EXCEPT !.state = AVR_MSIM_TESTFAIL]
        ELSE IF s.skip THEN s.m
        ELSE IF ~InFlash(m, z) THEN Fault(m)
        ELSE PcAdd(m1, 2)

\* BREAK that stops the machine and leaves the fetch on the flash
exec_break_NotArmed(m) ==
    [m EXCEPT !.state = AVR_STOPPED]

exec_break(m) ==
    [m EXCEPT !.state = AVR_STOPPED, !.read_from_mpm = 1]

\* NOP is executed inline by decode_inst: mcu->pc += 2
exec_nop(m) == PcAdd(m, 2)

\* executors outside the instruction subset this development has reached:
\* the driver does not step a machine onto them
exec_other(m) == Fault(m)

\* memset and memcpy of exec_spm: n bytes from pm[z] on; a byte outside the
\* array is a fault of the simulator
SpmRange(m, z) == z .. (z + m.spm_pagesize - 1)
exec_spm_erase(m, z) == [m EXCEPT !.pm = Merge(@, [a \in SpmRange(m, z) |-> 255])]

exec_spm(m, inst) ==
    LET err == m.spmcsr = NULL
        ez == IF m.rampz # NULL THEN m.dm[m.rampz] ELSE 0
        zh == m.dm[REG_ZH]
        zl == m.dm[REG_ZL]
        z == Shl(ez, 16) + Shl(zh, 8) + zl
        c == BitAnd(m.dm[m.spmcsr], 7)
        inside == \A a \in SpmRange(m, z) : InFlash(m, a)
        m1 == IF c = 3 THEN IF inside THEN exec_spm_erase(m, z) ELSE Fault(m)
              ELSE IF c = 1
              THEN IF {z, z + 1} \subseteq DOMAIN m.pmp
                   THEN [m EXCEPT !.pmp[z] = m.dm[0], !.pmp[z + 1] = m.dm[1]]
                   ELSE Fault(m)
              ELSE IF c = 5
              THEN IF inside /\ (0 .. (m.spm_pagesize - 1)) \subseteq DOMAIN m.pmp
                   THEN [m EXCEPT !.pm = Merge(@, [a \in SpmRange(m, z) |-> m.pmp[a - z]])]
                   ELSE Fault(m)
              ELSE m
        m2 == PcAdd(m1, 2)
        z2 == z + 2
    IN  IF err THEN [m EXCEPT !.state = AVR_MSIM_TESTFAIL]
        ELSE IF inst = \h95F8
        THEN [[[m2 EXCEPT !.dm[REG_ZH] = (z2 \div 256) % 256]
                   EXCEPT !.dm[REG_ZL] = z2 % 256]
                   EXCEPT !.dm[IF m.rampz # NULL THEN m.rampz ELSE REG_ZL] =
                              IF m.rampz # NULL THEN (z2 \div 65536) % 256 ELSE @]
        ELSE m2

(***************************************************************************)
(* decode_inst: the opcode dispatch.  .rc is the value the function        *)
(* returns (0, or -1 for a word that matches no opcode), .m the machine    *)
(* it leaves.  order is the build's evaluation order used by exec_reti.    *)
(***************************************************************************)
Is(inst, mask, val) == BitAnd(inst, mask) = val
Done(m) == [rc |-> 0, m |-> m]
Unknown(m) == [rc |-> -1, m |-> m]

\* the two flag updates that end every multiply: C from bit 15 of r, Z from !r
MulFlags(m, r) ==
    MSIM_AVR_UpdateSREGFlag(MSIM_AVR_UpdateSREGFlag(m, AVR_SREG_CARRY, Bit(r, 15)),
                            AVR_SREG_ZERO, IF r = 0 THEN 1 ELSE 0)

\* (signed char) of a byte of data memory
SignedChar(b) == IF b >= 128 THEN b - 256 ELSE b

\* R1:R0 <- r, as MUL, MULS and MULSU store it (r & 0xFF, (r >> 8) & 0xFF)
exec_mul_Store(m, r) == [m EXCEPT !.dm[0] = r % 256, !.dm[1] = (r \div 256) % 256]

\* R1:R0 <- r << 1, as FMUL, FMULS and FMULSU store it: both bytes are masked
\* with 0x0F. For a negative r the shifts act on the two's complement value.
exec_fmul_Store(m, r) == [m EXCEPT !.dm[0] = (2 * r) % 16, !.dm[1] = (r \div 128) % 16]

exec_mul(m, inst) ==
    LET s == SKIP_CYCLES(m, TRUE, 1)
        rda == (inst \div 16) % 32
        rra == BitOr(BitAnd(Shr(inst, 5), \h10), BitAnd(inst, \h0F))
        r == m.dm[rda] * m.dm[rra]
    IN  IF s.skip THEN s.m ELSE MulFlags(PcAdd(exec_mul_Store(s.m, r), 2), r)

exec_muls(m, inst) ==
    LET s == SKIP_CYCLES(m, TRUE, 1)
        rda == ((inst \div 16) % 16) + 16
        rra == (inst % 16) + 16
        r == SignedChar(m.dm[rda]) * SignedChar(m.dm[rra])
    IN  IF s.skip THEN s.m ELSE MulFlags(PcAdd(exec_mul_Store(s.m, r), 2), r)

exec_mulsu(m, inst) ==
    LET s == SKIP_CYCLES(m, TRUE, 1)
        rda == ((inst \div 16) % 8) + 16
        rra == (inst % 8) + 16
        r == SignedChar(m.dm[rda]) * m.dm[rra]
    IN  IF s.skip THEN s.m ELSE MulFlags(PcAdd(exec_mul_Store(s.m, r), 2), r)

exec_fmul(m, inst) ==
    LET s == SKIP_CYCLES(m, TRUE, 1)
        rd_addr == 16 + ((inst \div 16) % 8)
        rr_addr == 16 + (inst % 8)
        r == (m.dm[rd_addr] * m.dm[rr_addr]) % 65536
    IN  IF s.skip THEN s.m ELSE MulFlags(PcAdd(exec_fmul_Store(s.m, r), 2), r)

exec_fmuls(m, inst) ==
    LET s == SKIP_CYCLES(m, TRUE, 1)
        rd_addr == 16 + ((inst \div 16) % 8)
        rr_addr == 16 + (inst % 8)
        r == SignedChar(m.dm[rd_addr]) * SignedChar(m.dm[rr_addr])
    IN  IF s.skip THEN s.m ELSE MulFlags(PcAdd(exec_fmul_Store(s.m, r), 2), r)

exec_fmulsu(m, inst) ==
    LET s == SKIP_CYCLES(m, TRUE, 1)
        rd_addr == 16 + ((inst \div 16) % 8)
        rr_addr == 16 + (inst % 8)
        r == SignedChar(m.dm[rd_addr]) * m.dm[rr_addr]
    IN  IF s.skip THEN s.m ELSE MulFlags(PcAdd(exec_fmul_Store(s.m, r), 2), r)

decode_0000(m, inst) ==
    IF Is(inst, \hFF00, \h0200) THEN Done(exec_muls(m, inst))
    ELSE IF Is(inst, \hFF88, \h0300) THEN Done(exec_mulsu(m, inst))
    ELSE IF Is(inst, \hFF88, \h0308) THEN Done(exec_fmul(m, inst))
    ELSE IF Is(inst, \hFF88, \h0380) THEN Done(exec_fmuls(m, inst))
    ELSE IF Is(inst, \hFF88, \h0388) THEN Done(exec_fmulsu(m, inst))
    ELSE IF inst = 0 THEN Done(exec_nop(m))
    ELSE IF Is(inst, \hFC00, \h0400) THEN Done(exec_cpc(m, inst))
    ELSE IF Is(inst, \hFC00, \h0800) THEN Done(exec_sbc(m, inst))
    ELSE IF Is(inst, \hFC00, \h0C00) THEN Done(exec_add_lsl(m, inst))
    ELSE IF Is(inst, \hFF00, \h0100) THEN Done(exec_other(m))       \* exec_movw
    ELSE Unknown(m)

decode_1000(m, inst) ==
    IF Is(inst, \hFC00, \h1000) THEN Done(exec_cpse(m, inst))
    ELSE IF Is(inst, \hFC00, \h1400) THEN Done(exec_cp(m, inst))
    ELSE IF Is(inst, \hFC00, \h1800) THEN Done(exec_sub(m, inst))
    ELSE IF Is(inst, \hFC00, \h1C00) THEN Done(exec_adc_rol(m, inst))
    ELSE Unknown(m)

decode_2000(m, inst) ==
    IF Is(inst, \hFC00, \h2000) THEN Done(exec_other(m))            \* exec_and
    ELSE IF Is(inst, \hFC00, \h2400) THEN Done(exec_other(m))       \* exec_eor_clr
    ELSE IF Is(inst, \hFC00, \h2800) THEN Done(exec_other(m))       \* exec_or
    ELSE IF Is(inst, \hFC00, \h2C00) THEN Done(exec_mov(m, inst))
    ELSE Unknown(m)

decode_8000(m, inst) ==
    IF Is(inst, \hD208, \h8000) THEN Done(exec_ld_zdisp(m, inst))
    ELSE IF Is(inst, \hD208, \h8008) THEN Done(exec_ld_ydisp(m, inst))
    ELSE IF Is(inst, \hD208, \h8200) THEN Done(exec_st_zdisp(m, inst))
    ELSE IF Is(inst, \hD208, \h8208) THEN Done(exec_st_ydisp(m, inst))
    ELSE IF Is(inst, \hFE0F, \h8000) THEN Done(exec_ld_z(m, inst))
    ELSE IF Is(inst, \hFE0F, \h8008) THEN Done(exec_ld_y(m, inst))
    ELSE IF Is(inst, \hFE0F, \h8200) THEN Done(exec_st_z(m, inst))
    ELSE IF Is(inst, \hFE0F, \h8208) THEN Done(exec_st_y(m, inst))
    ELSE Unknown(m)

\* the innermost switches of case 0x9000: inst & 0xFE0F, then inst & 0xFF00
decode_9000_low(m, inst) ==
    LET i == BitAnd(inst, \hFE0F)
        j == BitAnd(inst, \hFF00)
    IN  IF i = \h9000 THEN Done(exec_lds(m, inst))
        ELSE IF i \in {\h9001, \h9002} THEN Done(exec_ld_z(m, inst))
        ELSE IF i \in {\h9004, \h9005} THEN Done(exec_other(m))     \* exec_lpm
        ELSE IF i \in {\h9006, \h9007} THEN Done(exec_elpm(m, inst))
        ELSE IF i \in {\h9009, \h900A} THEN Done(exec_ld_y(m, inst))
        ELSE IF i \in {\h900C, \h900D, \h900E} THEN Done(exec_ld_x(m, inst))
        ELSE IF i = \h900F THEN Done(exec_push_pop(m, inst, 0))
        ELSE IF i = \h9200 THEN Done(exec_sts(m, inst))
        ELSE IF i \in {\h9201, \h9202} THEN Done(exec_st_z(m, inst))
        ELSE IF i \in {\h9204, \h9205, \h9206, \h9207} THEN Done(exec_other(m)) \* xch, las, lac, lat
        ELSE IF i \in {\h9209, \h920A} THEN Done(exec_st_y(m, inst))
        ELSE IF i \in {\h920C, \h920D, \h920E} THEN Done(exec_st_x(m, inst))
        ELSE IF i = \h920F THEN Done(exec_push_pop(m, inst, 1))
        ELSE IF i \in {\h9400, \h9401, \h9402} THEN Done(exec_other(m))  \* com, neg, swap
        ELSE IF i = \h9403 THEN Done(exec_inc(m, inst))
        ELSE IF i = \h9405 THEN Done(exec_asr(m, inst))
        ELSE IF i = \h9406 THEN Done(exec_lsr(m, inst))
        ELSE IF i = \h9407 THEN Done(exec_ror(m, inst))
        ELSE IF i = \h940A THEN Done(exec_dec(m, inst))
        ELSE IF j = \h9700 THEN Done(exec_sbiw(m, inst))
        ELSE IF j = \h9800 THEN Done(exec_sbi_cbi(m, inst, 0))
        ELSE IF j = \h9900 THEN Done(exec_sbis_sbic(m, inst, 0))
        ELSE IF j = \h9A00 THEN Done(exec_sbi_cbi(m, inst, 1))
        ELSE IF j = \h9B00 THEN Done(exec_sbis_sbic(m, inst, 1))
        ELSE Unknown(m)

decode_9000(m, inst, order) ==
    IF Is(inst, \hFF00, \h9600) THEN Done(exec_adiw(m, inst))
    ELSE IF Is(inst, \hFF8F, \h9488) THEN Done(exec_bclr(m, inst))
    ELSE IF Is(inst, \hFF8F, \h9408) THEN Done(exec_bset(m, inst))
    ELSE IF Is(inst, \hFE0E, \h940C) THEN Done(exec_jmp(m, inst))
    ELSE IF Is(inst, \hFE0E, \h940E) THEN Done(exec_call(m, inst))
    ELSE IF Is(inst, \hFC00, \h9C00) THEN Done(exec_mul(m, inst))
    ELSE IF inst = \h9409 THEN Done(exec_ijmp(m))
    ELSE IF inst = \h9419 THEN Done(exec_eijmp(m))
    ELSE IF inst = \h9508 THEN Done(exec_ret(m))
    ELSE IF inst = \h9509 THEN Done(exec_icall(m))
    ELSE IF inst = \h9518 THEN Done(exec_reti(m, order))
    ELSE IF inst = \h9519 THEN Done(exec_eicall(m))
    ELSE IF inst = \h9598 THEN Done(exec_break(m))
    ELSE IF inst = \h95C8 THEN Done(exec_other(m))                  \* exec_lpm
    ELSE IF inst = \h95D8 THEN Done(exec_elpm(m, inst))
    ELSE IF inst \in {\h95E8, \h95F8} THEN Done(exec_spm(m, inst))
    ELSE decode_9000_low(m, inst)

decode_A000(m, inst) ==
    IF Is(inst, \hF800, \hA000) THEN Done(exec_lds16(m, inst))
    ELSE IF Is(inst, \hD208, \h8000) THEN Done(exec_ld_zdisp(m, inst))
    ELSE IF Is(inst, \hD208, \h8008) THEN Done(exec_ld_ydisp(m, inst))
    ELSE IF Is(inst, \hD208, \h8200) THEN Done(exec_st_zdisp(m, inst))
    ELSE IF Is(inst, \hD208, \h8208) THEN Done(exec_st_ydisp(m, inst))
    ELSE Unknown(m)

decode_F000(m, inst) ==
    IF Is(inst, \hFE08, \hF800) THEN Done(exec_other(m))            \* exec_bld
    ELSE IF Is(inst, \hFE08, \hFA00) THEN Done(exec_other(m))       \* exec_bst
    ELSE IF Is(inst, \hFE08, \hFC00) THEN Done(exec_sbrc(m, inst))
    ELSE IF Is(inst, \hFE08, \hFE00) THEN Done(exec_sbrs(m, inst))
    ELSE IF Is(inst, \hFC00, \hF400) THEN Done(exec_brbc(m, inst))
    ELSE IF Is(inst, \hFC00, \hF000) THEN Done(exec_brbs(m, inst))
    ELSE Unknown(m)

decode_inst(m, inst, order) ==
    LET c == BitAnd(inst, \hF000)
    IN  CASE c = \h0000 -> decode_0000(m, inst)
          [] c = \h1000 -> decode_1000(m, inst)
          [] c = \h2000 -> decode_2000(m, inst)
          [] c = \h3000 -> Done(exec_cpi(m, inst))
          [] c = \h5000 -> Done(exec_subi(m, inst))
          [] c \in {\h4000, \h6000, \h7000} -> Done(exec_other(m))       \* sbci, ori, andi
          [] c = \h8000 -> decode_8000(m, inst)
          [] c = \h9000 -> decode_9000(m, inst, order)
          [] c = \hA000 -> decode_A000(m, inst)
          [] c = \hB000 -> Done(exec_in_out(m, inst, RdField(inst),
                                            (inst % 16) + Shr(BitAnd(inst, \h0600), 5)))
          [] c = \hC000 -> Done(exec_rjmp(m, inst))
          [] c = \hD000 -> Done(exec_rcall(m, inst))
          [] c = \hE000 -> IF Is(inst, \hFF0F, \hEF0F) THEN Done(exec_other(m)) \* exec_ser
                           ELSE Done(exec_ldi(m, inst))
          [] OTHER -> decode_F000(m, inst)

(***************************************************************************)
(* MSIM_AVR_Step: fetch the word at PC (from match-point memory if the     *)
(* one-shot flag asks for it, clearing the flag) and decode it.            *)
(***************************************************************************)
FetchWord(m) ==
    IF m.read_from_mpm = 0
    THEN PmByte(m, m.pc) + 256 * PmByte(m, m.pc + 1)
    ELSE MpmByte(m, m.pc) + 256 * MpmByte(m, m.pc + 1)

\* a Step that steps over a word it could not decode
MSIM_AVR_Step_SkipsUnknown(m, order) ==
    LET inst == FetchWord(m)
        m0 == IF m.read_from_mpm = 0 THEN m ELSE [m EXCEPT !.read_from_mpm = 0]
        d == decode_inst(m0, inst, order)
    IN  IF ~(InFlash(m, m.pc) /\ InFlash(m, m.pc + 1))
        THEN [rc |-> 0, m |-> Fault(m)]
        ELSE IF d.rc # 0 THEN [rc |-> d.rc, m |-> PcAdd(d.m, 2)]
        ELSE d

MSIM_AVR_Step(m, order) ==
    LET inst == FetchWord(m)
        m0 == IF m.read_from_mpm = 0 THEN m ELSE [m EXCEPT !.read_from_mpm = 0]
        d == decode_inst(m0, inst, order)
    IN  IF ~(InFlash(m, m.pc) /\ InFlash(m, m.pc + 1))
        THEN [rc |-> 0, m |-> Fault(m)]
        ELSE d

(***************************************************************************)
(* Interrupt arbiter.  IrqTable is the vector table of the device          *)
(* (struct MSIM_AVR_INTVec): where the enable and the raised bit of each   *)
(* vector live, and the vector's number.                                   *)
(***************************************************************************)
IrqTable ==
    <<[enable |-> [reg |-> 89, bit |-> 0], raised |-> [reg |-> 88, bit |-> 0], vector |-> 1],
      [enable |-> [reg |-> 89, bit |-> 1], raised |-> [reg |-> 88, bit |-> 1], vector |-> 2]>>

IOBitSet(m, iob) == Bit(m.dm[iob.reg], iob.bit) = 1
IOBitWrite(m, iob, v) ==
    [m EXCEPT !.dm[iob.reg] = @ - Bit(@, iob.bit) * (2 ^ iob.bit) + v * (2 ^ iob.bit)]

PendingIrqs(m) ==
    {i \in DOMAIN IrqTable : IOBitSet(m, IrqTable[i].enable) /\ IOBitSet(m, IrqTable[i].raised)}

LowestIrq(m) == CHOOSE i \in PendingIrqs(m) : \A j \in PendingIrqs(m) : i <= j

\* the vector slot the arbiter takes in machine m, 0 if it takes none
IrqTaken(m) ==
    IF m.exec_main = 0 /\ MSIM_AVR_ReadSREGFlag(m, AVR_SREG_GLOB_INT) = 1 /\ PendingIrqs(m) # {}
    THEN LowestIrq(m) ELSE 0

handle_irq(m) ==
    LET i == IrqTaken(m)
        m1 == IOBitWrite(m, IrqTable[i].raised, 0)
        m2 == MSIM_AVR_UpdateSREGFlag(m1, AVR_SREG_GLOB_INT, 0)
        m3 == PushReturn(m2, m.pc)
        m4 == [m3 EXCEPT !.pc = m.ivt + IrqTable[i].vector * m.ivt_stride]
    IN  IF m.exec_main # 0 THEN [m EXCEPT !.exec_main = 0]
        ELSE IF i = 0 THEN m
        ELSE IF m.trap_at_isr # 0 THEN [m4 EXCEPT !.state = AVR_STOPPED]
        ELSE m4

(***************************************************************************)
(* Firmware images.  A program is a sequence of instruction words placed   *)
(* at Start; a subroutine (a single RET) sits at Sub and every interrupt   *)
(* vector holds a RETI.  All other flash is erased.                        *)
(***************************************************************************)
Start == 16
Sub == Start + 16

OP_NOP == \h0000
OP_RET == \h9508
OP_RETI == \h9518
OP_IJMP == \h9409
OP_ICALL == \h9509
OP_EIJMP == \h9419
OP_EICALL == \h9519
OP_BREAK == \h9598
OP_ELPM == \h95D8
OP_ELPM_Z(d) == \h9006 + 16 * d
OP_ELPM_ZINC(d) == \h9007 + 16 * d
OP_CALL == \h940E
OP_JMP == \h940C
OP_SEI == \h9478
OP_CLI == \h94F8
OP_RJMP(k) == \hC000 + (k % 4096)
OP_RCALL(k) == \hD000 + (k % 4096)
OP_BRBS(s, k) == \hF000 + 8 * (k % 128) + s
OP_BRBC(s, k) == \hF400 + 8 * (k % 128) + s
OP_ADD(d, r) == \h0C00 + 16 * d + (r % 16) + 512 * (r \div 16)
OP_ADC(d, r) == \h1C00 + 16 * d + (r % 16) + 512 * (r \div 16)
OP_CPSE(d, r) == \h1000 + 16 * d + (r % 16) + 512 * (r \div 16)
OP_MOV(d, r) == \h2C00 + 16 * d + (r % 16) + 512 * (r \div 16)
OP_LDI(d, k) == \hE000 + 16 * (d - 16) + (k % 16) + 256 * (k \div 16)
OP_SBRC(r, b) == \hFC00 + 16 * r + b
OP_SBRS(r, b) == \hFE00 + 16 * r + b
OP_PUSH(r) == \h920F + 16 * r
OP_POP(r) == \h900F + 16 * r
OP_SBI(a, b) == \h9A00 + 8 * a + b
OP_CBI(a, b) == \h9800 + 8 * a + b
OP_SBIS(a, b) == \h9B00 + 8 * a + b
OP_SBIC(a, b) == \h9900 + 8 * a + b
OP_IN(d, a) == \hB000 + 16 * d + (a % 16) + 512 * (a \div 16)
OP_OUT(r, a) == \hB800 + 16 * r + (a % 16) + 512 * (a \div 16)
OP_STS(r) == \h9200 + 16 * r
\* ST X, Rr with the pointer unchanged (0), post-incremented (1), pre-decremented (2)
OP_ST_X(r, mode) == \h920C + 16 * r + mode
OP_LDS(d) == \h9000 + 16 * d

OP_SUB(d, r) == \h1800 + 16 * d + (r % 16) + 512 * (r \div 16)
OP_CP(d, r) == \h1400 + 16 * d + (r % 16) + 512 * (r \div 16)
OP_CPC(d, r) == \h0400 + 16 * d + (r % 16) + 512 * (r \div 16)
OP_SBC(d, r) == \h0800 + 16 * d + (r % 16) + 512 * (r \div 16)
OP_SUBI(d, k) == \h5000 + 16 * (d - 16) + (k % 16) + 256 * (k \div 16)
OP_CPI(d, k) == \h3000 + 16 * (d - 16) + (k % 16) + 256 * (k \div 16)
\* p selects the pair R24, R26, R28 or R30
OP_SBIW(p, k) == \h9700 + 16 * p + (k % 16) + 64 * (k \div 16)
OP_ADIW(p, k) == \h9600 + 16 * p + (k % 16) + 64 * (k \div 16)
OP_ASR(d) == \h9405 + 16 * d
OP_LSR(d) == \h9406 + 16 * d
OP_ROR(d) == \h9407 + 16 * d
OP_MUL(d, r) == \h9C00 + 16 * d + (r % 16) + 512 * (r \div 16)
OP_MULS(d, r) == \h0200 + 16 * (d - 16) + (r - 16)
OP_MULSU(d, r) == \h0300 + 16 * (d - 16) + (r - 16)
OP_FMUL(d, r) == \h0308 + 16 * (d - 16) + (r - 16)
OP_FMULS(d, r) == \h0380 + 16 * (d - 16) + (r - 16)
OP_FMULSU(d, r) == \h0388 + 16 * (d - 16) + (r - 16)
OP_LDD_Z(d, q) == \h8000 + 16 * d + (q % 8) + 1024 * ((q \div 8) % 4) + 8192 * (q \div 32)
OP_LDD_Y(d, q) == OP_LDD_Z(d, q) + 8
OP_STD_Z(r, q) == OP_LDD_Z(r, q) + 512
OP_STD_Y(r, q) == OP_LDD_Z(r, q) + 520
OP_INC(d) == \h9403 + 16 * d
OP_DEC(d) == \h940A + 16 * d

\* the bytes of a sequence of words laid out from byte address base
Image(base, words) ==
    [a \in base .. (base + 2 * Len(words) - 1) |->
        LET w == words[((a - base) \div 2) + 1]
        IN  IF (a - base) % 2 = 0 THEN w % 256 ELSE w \div 256]

(***************************************************************************)
(* Device profiles and initial machines.                                   *)
(***************************************************************************)
Profiles ==
    {[xmega |-> 0, reduced_core |-> 0, pc_bits |-> 16, eind |-> NULL, rampz |-> NULL,
      flashend |-> \h1FFF, ivt_stride |-> 2],
     [xmega |-> 0, reduced_core |-> 0, pc_bits |-> 22, eind |-> EIND_ADDR, rampz |-> RAMPZ_ADDR,
      flashend |-> \h3FFFF, ivt_stride |-> 4],
     [xmega |-> 1, reduced_core |-> 0, pc_bits |-> 22, eind |-> EIND_ADDR, rampz |-> RAMPZ_ADDR,
      flashend |-> \h3FFFF, ivt_stride |-> 4],
     [xmega |-> 1, reduced_core |-> 0, pc_bits |-> 16, eind |-> EIND_ADDR, rampz |-> NULL,
      flashend |-> \h7FFF, ivt_stride |-> 4],
     [xmega |-> 0, reduced_core |-> 1, pc_bits |-> 16, eind |-> NULL, rampz |-> NULL,
      flashend |-> \h03FF, ivt_stride |-> 2]}

\* instruction words the programs are made of, and words that match no opcode
FirstWords ==
    {<<OP_NOP>>, <<OP_RJMP(0)>>, <<OP_RJMP(-1)>>, <<OP_RJMP(-2048)>>,
     <<OP_RCALL(7)>>, <<OP_CALL, Sub \div 2>>, <<OP_JMP, Sub \div 2>>,
     <<OP_ICALL>>, <<OP_IJMP>>, <<OP_EICALL>>, <<OP_EIJMP>>,
     <<OP_ELPM>>, <<OP_ELPM_Z(16)>>, <<OP_ELPM_ZINC(16)>>,
     <<OP_RET>>, <<OP_RETI>>, <<OP_BREAK>>, <<OP_SEI>>, <<OP_CLI>>,
     <<OP_BRBS(7, 0)>>, <<OP_BRBC(7, -64)>>,
     <<OP_CPSE(16, 17)>>, <<OP_SBRS(16, 0)>>, <<OP_SBRC(16, 0)>>, <<OP_SBRC(16, 1)>>,
     <<OP_PUSH(16)>>, <<OP_POP(16)>>, <<OP_SBI(24, 0)>>, <<OP_SBIS(24, 0)>>,
     <<OP_SBIC(24, 0)>>,
     <<OP_ADD(16, 17)>>, <<OP_ADC(16, 17)>>, <<OP_LDI(30, 33)>>,
     <<OP_STS(16), RAMSTART>>, <<OP_LDS(16), SREG_ADDR>>}

UnknownWords == {\h0001, \h00FF, \h9003, \h920B, \h9404, \h95A8, \hF808, \hFFFF}

NextWords == {<<>>, <<OP_NOP>>, <<OP_RET>>, <<OP_CALL, Sub \div 2>>, <<OP_STS(16), RAMSTART>>}

Programs ==
    {f \o n : f \in FirstWords, n \in NextWords} \cup {<<w>> : w \in UnknownWords}

\* interrupt requests the environment may still raise
MaxRaise == 2
\* consecutive Step calls at one PC that the history counts
MaxCalls == 9


Vectors(prof) ==
    Merge(Image(prof.ivt_stride * IrqTable[1].vector, <<OP_RETI>>),
          Image(prof.ivt_stride * IrqTable[2].vector, <<OP_RETI>>))

\* the machine after construction and start-up: SP at RAMEND, both vectors
\* enabled, Z and the I flag as the start-up code left them; with bp the
\* debugger has put a breakpoint on the first instruction
InitMachine(prof, prog, z, iflag, bp, trap) ==
    LET code == Merge(Merge(Vectors(prof), Image(Sub, <<OP_RET>>)), Image(Start, prog))
        dm0 == [a \in DmAddrs |->
                   CASE a = SPL_ADDR -> RAMEND % 256
                     [] a = SPH_ADDR -> RAMEND \div 256
                     [] a = SREG_ADDR -> 128 * iflag
                     [] a = REG_ZL -> z % 256
                     [] a = REG_ZH -> z \div 256
                     [] a \in {16, 17} -> 1
                     [] a = IrqTable[1].enable.reg -> 3
                     [] OTHER -> 0]
    IN  [xmega |-> prof.xmega, reduced_core |-> prof.reduced_core, pc_bits |-> prof.pc_bits,
         eind |-> prof.eind, rampz |-> prof.rampz, flashend |-> prof.flashend,
         ramstart |-> RAMSTART, ramend |-> RAMEND, sfr_off |-> SFR_OFF,
         ivt |-> 0, ivt_stride |-> prof.ivt_stride, trap_at_isr |-> trap,
         state |-> AVR_RUNNING, pc |-> Start, ic_left |-> 0, in_mcinst |-> 0,
         read_from_mpm |-> 0, exec_main |-> 0,
         pm |-> IF bp = 1 THEN Merge(code, Image(Start, <<OP_BREAK>>)) ELSE code,
         mpm |-> IF bp = 1 THEN Image(Start, <<prog[1]>>) ELSE [a \in {} |-> 0],
         dm |-> dm0, fault |-> FALSE,
         spmcsr |-> NULL, spm_pagesize |-> 0, pmp |-> [a \in {} |-> 0]]

\* orders in which a build may make the StackPop calls of exec_reti
Orders == {<<"e", "h", "l">>, <<"l", "h", "e">>}

\* the return address and the stack pointer of a call that has completed with
\* no other instruction completed and no interrupt taken since
NoCall == [live |-> FALSE, to |-> 0, sp |-> 0]
IsCall(inst) ==
    BitAnd(inst, \hF000) = \hD000 \/ BitAnd(inst, \hFE0E) = \h940E \/ inst = \h9509
CallLength(inst) == IF BitAnd(inst, \hFE0E) = \h940E THEN 4 ELSE 2

\* instructions completed since the last RETI are counted up to MaxSince
MaxSince == 2

\* ticks of Timer/Counter0 since start-up that the history counts
MaxTicks == 260

\* the statics of avr_m328p.c at program start (zero-initialised), the tick
\* count and the T0 level seen by the previous tick; crashed tells that the
\* process has died in timer0_normal; check_point and ticks_passed are the
\* globals of check-timer0.lua
Tc0Reset ==
    [tc0_presc |-> 0, tc0_ticks |-> 0, old_wgm0 |-> 0, init_portd |-> 0, init_pind |-> 0,
     missed_cm |-> 0, crashed |-> FALSE, n |-> 0, t0_prev |-> 0,
     check_point |-> 0, ticks_passed |-> 0]

\* no signal is selected for the dump and nothing is written
NoVcd == [regs |-> << >>, frame |-> << >>]

\* the process holds one simulator instance only
NoTwin == << >>

NoHistory ==
    [op |-> "init", rc |-> 0, inst |-> 0, pc |-> 0, sp |-> 0, sreg |-> 0, state |-> AVR_RUNNING,
     in_mcinst |-> 0, ic_left |-> 0, calls |-> 0, need |-> 0, took |-> 0,
     call |-> NoCall, ret_of |-> NoCall, since_reti |-> MaxSince, ready |-> FALSE,
     rd |-> 0, rr |-> 0]

\* programs run with the peripherals raising interrupt requests
IrqPrograms ==
    {<<OP_NOP, OP_NOP>>, <<OP_RJMP(-1)>>, <<OP_CALL, Sub \div 2, OP_NOP>>,
     <<OP_SEI, OP_NOP>>, <<OP_RCALL(7), OP_CLI>>, <<OP_ICALL, OP_RJMP(-1)>>,
     <<OP_OUT(16, SREG_ADDR - SFR_OFF), OP_NOP>>, <<OP_IN(16, SREG_ADDR - SFR_OFF), OP_NOP>>,
     <<OP_STS(16), SREG_ADDR, OP_NOP>>, <<OP_LDI(26, SREG_ADDR), OP_ST_X(16, 0), OP_NOP>>}

\* Every program runs on every profile without interrupt requests, with and
\* without a breakpoint on its first instruction; the interrupt programs run
\* with the peripherals raising up to MaxRaise requests.
Init ==
    /\ \E prof \in Profiles :
          \/ \E prog \in Programs, z \in {Sub, Sub + 1}, bp \in {0, 1} :
                /\ mcu = InitMachine(prof, prog, z, 0, bp, 0)
                /\ budget = 0
          \/ \E prog \in IrqPrograms, iflag \in {0, 1}, trap \in {0, 1} :
                /\ mcu = InitMachine(prof, prog, Sub, iflag, 0, trap)
                /\ budget = MaxRaise
    /\ build \in [reti_order : Orders]
    /\ phase = "step"
    /\ ret = 0
    /\ last = NoHistory
    /\ tc0 = Tc0Reset
    /\ vcd = NoVcd
    /\ twin = NoTwin

(***************************************************************************)
(* Driver loop.  One iteration: (1) leave if the run state is Stopped,     *)
(* Stop or TestFail, (2) MSIM_AVR_Step, (3, 4) advance the cycle counter   *)
(* and tick the peripherals, which may raise interrupt flags, (5) at an    *)
(* instruction boundary invoke the interrupt arbiter.  A Step that returns *)
(* -1 ends the loop.                                                       *)
(***************************************************************************)
Min(a, b) == IF a < b THEN a ELSE b

DriverStep ==
    \E r \in {MSIM_AVR_Step(mcu, build.reti_order)} :
    LET fresh == mcu.in_mcinst = 0 \/ last.op = "init" \/ last.pc # mcu.pc
    IN  /\ phase = "step"
        /\ mcu.state \notin {AVR_STOPPED, AVR_MSIM_STOP, AVR_MSIM_TESTFAIL}
        /\ ~r.m.fault
        /\ mcu' = r.m
        /\ ret' = r.rc
        /\ phase' = "tick"
        /\ last' = [op |-> "step", rc |-> r.rc, inst |-> FetchWord(mcu), pc |-> mcu.pc,
                    sp |-> StackPointer(mcu), sreg |-> mcu.dm[SREG_ADDR], state |-> mcu.state,
                    in_mcinst |-> mcu.in_mcinst, ic_left |-> mcu.ic_left,
                    calls |-> IF fresh THEN 1 ELSE Min(last.calls + 1, MaxCalls),
                    need |-> IF mcu.in_mcinst = 0 THEN r.m.ic_left ELSE last.need,
                    took |-> 0,
                    call |-> IF mcu.in_mcinst = 1 /\ r.m.in_mcinst = 0 /\ IsCall(FetchWord(mcu))
                             THEN [live |-> TRUE, to |-> mcu.pc + CallLength(FetchWord(mcu)),
                                   sp |-> StackPointer(mcu)]
                             ELSE IF r.m.in_mcinst = 1 /\ r.m.pc = mcu.pc THEN last.call
                             ELSE NoCall,
                    ret_of |-> last.call,
                    since_reti |-> IF r.m.in_mcinst = 1 \/ r.rc # 0 THEN last.since_reti
                                   ELSE IF FetchWord(mcu) = OP_RETI THEN 0
                                   ELSE Min(last.since_reti + 1, MaxSince),
                    ready |-> FALSE,
                    rd |-> mcu.dm[RdField(FetchWord(mcu))],
                    rr |-> mcu.dm[RrField(FetchWord(mcu))]]
        /\ UNCHANGED <<build, budget, tc0, vcd, twin>>

\* peripherals raise any set of interrupt flags the budget still allows
Tick ==
    /\ phase = "tick"
    /\ ret = 0
    /\ \E S \in SUBSET (DOMAIN IrqTable) :
          /\ Cardinality(S) <= budget
          /\ \A i \in S : ~IOBitSet(mcu, IrqTable[i].raised)
          /\ budget' = budget - Cardinality(S)
          /\ mcu' = [mcu EXCEPT !.dm[IrqTable[1].raised.reg] =
                        @ + (IF 1 \in S THEN 2 ^ IrqTable[1].raised.bit ELSE 0)
                          + (IF 2 \in S THEN 2 ^ IrqTable[2].raised.bit ELSE 0)]
    /\ phase' = "irq"
    /\ UNCHANGED <<build, ret, last, tc0, vcd, twin>>

DriverIrq ==
    \E m \in {IF mcu.in_mcinst = 0 THEN handle_irq(mcu) ELSE mcu} :
        /\ phase = "irq"
        /\ ~m.fault
        /\ mcu' = m
        /\ phase' = "step"
        /\ last' = [last EXCEPT !.op = "irq", !.pc = mcu.pc, !.sp = StackPointer(mcu),
                                !.sreg = mcu.dm[SREG_ADDR], !.state = mcu.state,
                                !.took = IF mcu.in_mcinst = 0 THEN IrqTaken(mcu) ELSE 0,
                                !.call = IF mcu.in_mcinst = 0 /\ IrqTaken(mcu) # 0
                                         THEN NoCall ELSE @,
                                !.in_mcinst = mcu.in_mcinst,
                                !.ready = /\ mcu.in_mcinst = 0
                                          /\ Bit(mcu.dm[SREG_ADDR], AVR_SREG_GLOB_INT) = 1
                                          /\ \E i \in DOMAIN IrqTable :
                                                /\ IOBitSet(mcu, IrqTable[i].enable)
                                                /\ IOBitSet(mcu, IrqTable[i].raised)]
        /\ UNCHANGED <<build, budget, ret, tc0, vcd, twin>>

\* the debugger resumes a stopped machine
Resume ==
    /\ phase = "step"
    /\ mcu.state = AVR_STOPPED
    /\ mcu' = [mcu EXCEPT !.state = AVR_RUNNING]
    /\ last' = [last EXCEPT !.op = "resume"]
    /\ UNCHANGED <<build, budget, phase, ret, tc0, vcd, twin>>

Next == DriverStep \/ Tick \/ DriverIrq \/ Resume

Spec == Init /\ [][Next]_vars

TypeOK ==
    /\ mcu.in_mcinst \in {0, 1}
    /\ mcu.ic_left \in 0 .. 4
    /\ phase \in {"step", "tick", "irq"}
    /\ ret \in {0, -1}
    /\ \A a \in DmAddrs : mcu.dm[a] \in 0 .. 255

(***************************************************************************)
(* Properties.  AfterStep holds in the state an MSIM_AVR_Step call leaves: *)
(* mcu is the machine after the call, last what the machine was before.    *)
(***************************************************************************)
AfterStep == phase = "tick" /\ last.op = "step"
StepCall == phase = "step" /\ phase' = "tick"
Completed == AfterStep /\ last.in_mcinst = 1 /\ mcu.in_mcinst = 0

\* C1: an instruction that declares n extra cycles completes on exactly the
\* (n+1)-th consecutive Step call at its PC: the first call latches
\* in_mcinst = 1 and ic_left = n, every further call before the last only
\* decrements ic_left, and the call that clears in_mcinst is call n + 1
\* (the second for RJMP, the fourth for CALL on a non-xmega 16-bit device).
C1_CompletesOnCallNPlusOne ==
    AfterStep =>
        /\ (last.in_mcinst = 0 /\ mcu.in_mcinst = 1) => last.calls = 1
        /\ (last.in_mcinst = 1 /\ mcu.in_mcinst = 1) => mcu.ic_left = last.ic_left - 1
        /\ Completed => last.calls = last.need + 1
        /\ (Completed /\ BitAnd(last.inst, \hF000) = \hC000) => last.calls = 2
        /\ (Completed /\ BitAnd(last.inst, \hFE0E) = OP_CALL /\ mcu.xmega = 0 /\ mcu.pc_bits = 16)
               => last.calls = 4

\* a multi-cycle instruction fetched through a breakpoint has completed
C1_BreakpointCase ==
    Completed /\ PmWord(mcu, last.pc) = OP_BREAK /\ last.inst # OP_BREAK

\* C2: a Step call that leaves a multi-cycle instruction incomplete changes
\* nothing of the machine but in_mcinst and ic_left: PC, flash and all of
\* data memory stay as they were.
C2_IncompleteStepChangesOnlyCounters ==
    [][(StepCall /\ mcu'.in_mcinst = 1)
          => mcu' = [mcu EXCEPT !.in_mcinst = mcu'.in_mcinst, !.ic_left = mcu'.ic_left]]_vars

\* C3: after every Step call in_mcinst = 1 implies ic_left >= 1 and
\* in_mcinst = 0 implies ic_left = 0.
C3_CycleCounterInvariant ==
    /\ mcu.in_mcinst \in {0, 1}
    /\ mcu.in_mcinst = 1 => mcu.ic_left >= 1
    /\ mcu.in_mcinst = 0 => mcu.ic_left = 0

\* a Step call has left an instruction with three cycles still to go
C3_Witness == AfterStep /\ mcu.in_mcinst = 1 /\ mcu.ic_left = 3

\* C4: after every cycle PC is even and lies in [0, flashend], whatever jump,
\* call, branch or return was executed.
C4_PcEvenAndInFlash ==
    /\ mcu.pc % 2 = 0
    /\ mcu.pc >= 0
    /\ mcu.pc <= mcu.flashend

\* an indirect jump or call has just completed
C4_IndirectJumpCase == Completed /\ last.inst \in {OP_IJMP, OP_ICALL}

\* the listed state of the machine that an instruction in error must not touch
SameCoreState(m1, m2) ==
    /\ m2.pc = m1.pc
    /\ m2.dm = m1.dm
    /\ m2.in_mcinst = m1.in_mcinst
    /\ m2.ic_left = m1.ic_left

\* C5: a Step on a word that matches no opcode returns -1 and leaves PC,
\* data memory (with SREG and SP), in_mcinst and ic_left unchanged.
C5_UnknownOpcodeRejected ==
    [][(StepCall /\ (FetchWord(mcu) \in UnknownWords \/ ret' = -1))
          => (ret' = -1 /\ SameCoreState(mcu, mcu'))]_vars

\* a Step has rejected the erased-flash word 0xFFFF
C5_Witness == AfterStep /\ ret = -1 /\ last.inst = \hFFFF

\* does the device lack the register the instruction word needs?
Unsupported(m, inst) ==
    \/ inst \in {OP_EICALL, OP_EIJMP} /\ m.eind = NULL
    \/ (inst = OP_ELPM \/ BitAnd(inst, \hFE0F) \in {\h9006, \h9007}) /\ m.rampz = NULL

\* C6: EICALL or EIJMP on a device without EIND, and ELPM on a device without
\* RAMPZ, set the run state to AVR_MSIM_TESTFAIL and change neither PC, SP,
\* data memory nor in_mcinst and ic_left.
C6_UnsupportedInstructionFails ==
    [][(StepCall /\ Unsupported(mcu, FetchWord(mcu)))
          => (mcu'.state = AVR_MSIM_TESTFAIL /\ SameCoreState(mcu, mcu'))]_vars

\* EICALL has just been refused on a device without EIND
C6_Witness ==
    AfterStep /\ last.inst = OP_EICALL /\ mcu.eind = NULL /\ mcu.state = AVR_MSIM_TESTFAIL

\* the address whose bytes lie on top of the stack of m, as a call or an
\* interrupt entry has pushed them (low byte first, so the low byte is deepest)
ReturnAddressOnStack(m, sp) ==
    IF m.pc_bits > 16
    THEN 65536 * DmRead(m, sp + 1) + 256 * DmRead(m, sp + 2) + DmRead(m, sp + 3)
    ELSE 256 * DmRead(m, sp + 1) + DmRead(m, sp + 2)

AddressBytes(m) == IF m.pc_bits > 16 THEN 3 ELSE 2

\* the arbiter is invoked at an instruction boundary
ArbiterCall == phase = "irq" /\ phase' = "step" /\ mcu.in_mcinst = 0

\* slot i is the lowest-numbered vector whose enable and raised bits are set
LowestPending(m, i) ==
    /\ i \in DOMAIN IrqTable
    /\ IOBitSet(m, IrqTable[i].enable) /\ IOBitSet(m, IrqTable[i].raised)
    /\ \A j \in DOMAIN IrqTable :
          (IOBitSet(m, IrqTable[j].enable) /\ IOBitSet(m, IrqTable[j].raised))
              => IrqTable[i].vector <= IrqTable[j].vector

\* C7: invoked with I = 1, exec_main = 0 and at least one vector enabled and
\* raised, the arbiter dispatches the lowest-numbered such vector: its raised
\* bit is cleared, I is cleared, the return PC is pushed (SP drops by 2 with a
\* 16-bit PC, by 3 with a 22-bit PC), PC becomes ivt_base + vector_offset *
\* entry stride, and no other vector's raised bit changes.
C7_ArbiterDispatchesLowest ==
    [][\A i \in DOMAIN IrqTable :
          (/\ ArbiterCall
           /\ MSIM_AVR_ReadSREGFlag(mcu, AVR_SREG_GLOB_INT) = 1
           /\ mcu.exec_main = 0
           /\ LowestPending(mcu, i))
          => /\ ~IOBitSet(mcu', IrqTable[i].raised)
             /\ MSIM_AVR_ReadSREGFlag(mcu', AVR_SREG_GLOB_INT) = 0
             /\ StackPointer(mcu') = StackPointer(mcu) - AddressBytes(mcu)
             /\ ReturnAddressOnStack(mcu', StackPointer(mcu')) = mcu.pc
             /\ mcu'.pc = mcu.ivt + IrqTable[i].vector * mcu.ivt_stride
             /\ \A j \in DOMAIN IrqTable :
                   j # i => (IOBitSet(mcu', IrqTable[j].raised) <=> IOBitSet(mcu, IrqTable[j].raised))]_vars

\* the arbiter has taken vector 1 of a 22-bit device while vector 2 was raised too
C7_Witness ==
    /\ phase = "step" /\ last.op = "irq" /\ last.took = 1
    /\ IOBitSet(mcu, IrqTable[2].raised)
    /\ mcu.pc_bits = 22

\* C9: CALL, RCALL and ICALL lower SP by 2 (16-bit PC) or 3 (22-bit PC), and
\* a RET executed at the target as the next instruction sets PC to the
\* instruction that follows the call and restores SP.
C9_CallThenRet ==
    /\ (Completed /\ IsCall(last.inst))
          => StackPointer(mcu) = last.sp - AddressBytes(mcu)
    /\ (Completed /\ last.inst = OP_RET /\ last.ret_of.live)
          => (mcu.pc = last.ret_of.to /\ StackPointer(mcu) = last.ret_of.sp)

\* a RET has returned from a CALL on a 22-bit device
C9_Witness ==
    /\ Completed /\ last.inst = OP_RET /\ last.ret_of.live
    /\ last.ret_of.to = Start + 4
    /\ mcu.pc_bits = 22

AfterArbiter == phase = "step" /\ last.op = "irq"

\* C8: when RETI completes on a non-xmega device, I = 1, exec_main = 1 and PC
\* is the return address that lay on the stack; the arbiter takes no vector
\* before one further instruction of the interrupted program has completed,
\* and takes a pending interrupt right after that one instruction.
C8_RetiThenOneMainInstruction ==
    /\ (Completed /\ last.inst = OP_RETI /\ mcu.xmega = 0)
          => /\ MSIM_AVR_ReadSREGFlag(mcu, AVR_SREG_GLOB_INT) = 1
             /\ mcu.exec_main = 1
             /\ mcu.pc = ReturnAddressOnStack(mcu, last.sp)
             /\ StackPointer(mcu) = last.sp + AddressBytes(mcu)
    /\ (AfterArbiter /\ mcu.xmega = 0 /\ last.took # 0) => last.since_reti >= 1
    /\ (AfterArbiter /\ mcu.xmega = 0 /\ last.since_reti = 1 /\ last.ready) => last.took # 0

\* RETI has returned from the handler of an interrupt the arbiter had taken
C8_RetiCase ==
    /\ Completed /\ last.inst = OP_RETI /\ mcu.xmega = 0
    /\ last.pc = mcu.ivt + IrqTable[1].vector * mcu.ivt_stride

\* the instruction after a RETI has completed and a pending interrupt is taken
C8_DeferredCase ==
    AfterArbiter /\ mcu.xmega = 0 /\ last.since_reti = 1 /\ last.took # 0

(***************************************************************************)
(* The adder on all operands: one ADD or ADC of R16 and R17 is stepped     *)
(* from every pair of register values, with SREG all clear or all set.     *)
(***************************************************************************)
AluProfile == CHOOSE prof \in Profiles : prof.pc_bits = 16 /\ prof.xmega = 0 /\ prof.reduced_core = 0
AluBase == InitMachine(AluProfile, <<OP_NOP>>, Sub, 0, 0, 0)
AluMachine(op, rd, rr, sreg) ==
    [AluBase EXCEPT !.pm = Merge(@, Image(Start, <<op>>)),
                    !.dm[16] = rd, !.dm[17] = rr, !.dm[SREG_ADDR] = sreg]

InitAlu ==
    /\ \E op \in {OP_ADD(16, 17), OP_ADC(16, 17)}, rd \in 0 .. 255, rr \in 0 .. 255,
          sreg \in {0, 255} :
          mcu = AluMachine(op, rd, rr, sreg)
    /\ build \in [reti_order : {<<"e", "h", "l">>}]
    /\ budget = 0
    /\ phase = "step"
    /\ ret = 0
    /\ last = NoHistory
    /\ tc0 = Tc0Reset
    /\ vcd = NoVcd
    /\ twin = NoTwin

SpecAlu == InitAlu /\ [][DriverStep]_vars

IsAdd(inst) == BitAnd(inst, \hFC00) = \h0C00
IsAdc(inst) == BitAnd(inst, \hFC00) = \h1C00
Flag(m, f) == Bit(m.dm[SREG_ADDR], f)
\* bit n of (rd AND rr) OR (rr AND NOT r) OR (NOT r AND rd)
CarryOut(rd, rr, r, n) ==
    IF \/ Bit(rd, n) = 1 /\ Bit(rr, n) = 1
       \/ Bit(rr, n) = 1 /\ Bit(r, n) = 0
       \/ Bit(r, n) = 0 /\ Bit(rd, n) = 1
    THEN 1 ELSE 0
\* bit 7 of (rd AND rr AND NOT r) OR (NOT rd AND NOT rr AND r)
Overflow(rd, rr, r) ==
    IF \/ Bit(rd, 7) = 1 /\ Bit(rr, 7) = 1 /\ Bit(r, 7) = 0
       \/ Bit(rd, 7) = 0 /\ Bit(rr, 7) = 0 /\ Bit(r, 7) = 1
    THEN 1 ELSE 0

\* C10: ADD and ADC store r = (rd + rr [+ C]) mod 256 in Rd; C and H are
\* bits 7 and 3 of (rd AND rr) OR (rr AND NOT r) OR (NOT r AND rd), Z is
\* r = 0, N is bit 7 of r, V is bit 7 of (rd AND rr AND NOT r) OR (NOT rd AND
\* NOT rr AND r), S is N XOR V, and T and I keep their values.
C10_AddAdcResultAndFlags ==
    (AfterStep /\ (IsAdd(last.inst) \/ IsAdc(last.inst))) =>
        LET rd == last.rd
            rr == last.rr
            cin == IF IsAdc(last.inst) THEN Bit(last.sreg, AVR_SREG_CARRY) ELSE 0
            r == (rd + rr + cin) % 256
        IN  /\ mcu.dm[RdField(last.inst)] = r
            /\ Flag(mcu, AVR_SREG_CARRY) = CarryOut(rd, rr, r, 7)
            /\ Flag(mcu, AVR_SREG_CARRY) = (rd + rr + cin) \div 256
            /\ Flag(mcu, AVR_SREG_HALF_CARRY) = CarryOut(rd, rr, r, 3)
            /\ Flag(mcu, AVR_SREG_ZERO) = (IF r = 0 THEN 1 ELSE 0)
            /\ Flag(mcu, AVR_SREG_NEGATIVE) = Bit(r, 7)
            /\ Flag(mcu, AVR_SREG_TWOSCOM_OF) = Overflow(rd, rr, r)
            /\ Flag(mcu, AVR_SREG_SIGN) = (Bit(r, 7) + Overflow(rd, rr, r)) % 2
            /\ Flag(mcu, AVR_SREG_T_BIT) = Bit(last.sreg, AVR_SREG_T_BIT)
            /\ Flag(mcu, AVR_SREG_GLOB_INT) = Bit(last.sreg, AVR_SREG_GLOB_INT)

\* ADC of 0x7F and 0x80 with the carry set has wrapped to zero
C10_Witness ==
    /\ AfterStep /\ IsAdc(last.inst)
    /\ last.rd = 127 /\ last.rr = 128 /\ Bit(last.sreg, AVR_SREG_CARRY) = 1
    /\ mcu.dm[16] = 0

(***************************************************************************)
(* The subtractor on all operands: one SUB or CP of R16 and R17, or one    *)
(* SUBI or CPI of R16 and an immediate, is stepped from every pair of      *)
(* operand values, with SREG all clear or all set.                         *)
(***************************************************************************)
InitSub ==
    /\ \E rd \in 0 .. 255, rr \in 0 .. 255, sreg \in {0, 255} :
          \/ \E op \in {OP_SUB(16, 17), OP_CP(16, 17)} : mcu = AluMachine(op, rd, rr, sreg)
          \/ \E op \in {OP_SUBI(16, rr), OP_CPI(16, rr)} : mcu = AluMachine(op, rd, 0, sreg)
    /\ build \in [reti_order : {<<"e", "h", "l">>}]
    /\ budget = 0
    /\ phase = "step"
    /\ ret = 0
    /\ last = NoHistory
    /\ tc0 = Tc0Reset
    /\ vcd = NoVcd
    /\ twin = NoTwin

SpecSub == InitSub /\ [][DriverStep]_vars

IsSub(inst) == BitAnd(inst, \hFC00) = \h1800
IsCp(inst) == BitAnd(inst, \hFC00) = \h1400
IsSubi(inst) == BitAnd(inst, \hF000) = \h5000
IsCpi(inst) == BitAnd(inst, \hF000) = \h3000

\* the destination register and the two operands of a subtraction in machine m
SubOperands(m, inst) ==
    IF IsSubi(inst) \/ IsCpi(inst)
    THEN [d |-> 16 + ((inst \div 16) % 16), rd |-> m.dm[16 + ((inst \div 16) % 16)],
          rr |-> (inst % 16) + 16 * ((inst \div 256) % 16)]
    ELSE [d |-> (inst \div 16) % 32, rd |-> m.dm[(inst \div 16) % 32],
          rr |-> m.dm[(inst % 16) + 16 * ((inst \div 512) % 2)]]

\* bit n of (NOT rd AND rr) OR (rr AND r) OR (r AND NOT rd)
Borrow(rd, rr, r, n) ==
    IF \/ Bit(rd, n) = 0 /\ Bit(rr, n) = 1
       \/ Bit(rr, n) = 1 /\ Bit(r, n) = 1
       \/ Bit(r, n) = 1 /\ Bit(rd, n) = 0
    THEN 1 ELSE 0
\* bit 7 of (rd AND NOT rr AND NOT r) OR (NOT rd AND rr AND r)
SubOverflow(rd, rr, r) ==
    IF \/ Bit(rd, 7) = 1 /\ Bit(rr, 7) = 0 /\ Bit(r, 7) = 0
       \/ Bit(rd, 7) = 0 /\ Bit(rr, 7) = 1 /\ Bit(r, 7) = 1
    THEN 1 ELSE 0

\* all of data memory but SREG and the bytes at the addresses in D is the same
SameDataBut(m1, m2, D) ==
    \A a \in DmAddrs : (a # SREG_ADDR /\ a \notin D) => m2.dm[a] = m1.dm[a]

\* C11: SUB, SUBI, CP and CPI compute r = (rd - rr) mod 256; C and H are bits
\* 7 and 3 of (NOT rd AND rr) OR (rr AND r) OR (r AND NOT rd), V is bit 7 of
\* (rd AND NOT rr AND NOT r) OR (NOT rd AND rr AND r), N is bit 7 of r, S is
\* N XOR V and Z is r = 0; SUB and SUBI store r in Rd, CP and CPI leave every
\* register as it was.
C11_SubFamilyResultAndFlags ==
    [][(StepCall /\ (IsSub(FetchWord(mcu)) \/ IsSubi(FetchWord(mcu))
                       \/ IsCp(FetchWord(mcu)) \/ IsCpi(FetchWord(mcu)))) =>
          LET inst == FetchWord(mcu)
              o == SubOperands(mcu, inst)
              r == (o.rd - o.rr) % 256
          IN  /\ Flag(mcu', AVR_SREG_CARRY) = Borrow(o.rd, o.rr, r, 7)
              /\ Flag(mcu', AVR_SREG_HALF_CARRY) = Borrow(o.rd, o.rr, r, 3)
              /\ Flag(mcu', AVR_SREG_TWOSCOM_OF) = SubOverflow(o.rd, o.rr, r)
              /\ Flag(mcu', AVR_SREG_NEGATIVE) = Bit(r, 7)
              /\ Flag(mcu', AVR_SREG_SIGN) = (Bit(r, 7) + SubOverflow(o.rd, o.rr, r)) % 2
              /\ Flag(mcu', AVR_SREG_ZERO) = (IF r = 0 THEN 1 ELSE 0)
              /\ (IsSub(inst) \/ IsSubi(inst)) => mcu'.dm[o.d] = r
              /\ SameDataBut(mcu, mcu', IF IsSub(inst) \/ IsSubi(inst) THEN {o.d} ELSE {})]_vars

\* SUB of 5 and 3 has been stepped
C11_SubCase == AfterStep /\ IsSub(last.inst) /\ last.rd = 5 /\ last.rr = 3

(***************************************************************************)
(* Subtraction with carry on all operands: one CPC or SBC of R16 and R17   *)
(* is stepped from every pair of register values and every combination of  *)
(* the C and Z flags.                                                      *)
(***************************************************************************)
InitSbc ==
    /\ \E op \in {OP_CPC(16, 17), OP_SBC(16, 17)}, rd \in 0 .. 255, rr \in 0 .. 255,
          sreg \in {0, 1, 2, 3} :
          mcu = AluMachine(op, rd, rr, sreg)
    /\ build \in [reti_order : {<<"e", "h", "l">>}]
    /\ budget = 0
    /\ phase = "step"
    /\ ret = 0
    /\ last = NoHistory
    /\ tc0 = Tc0Reset
    /\ vcd = NoVcd
    /\ twin = NoTwin

SpecSbc == InitSbc /\ [][DriverStep]_vars

IsCpc(inst) == BitAnd(inst, \hFC00) = \h0400
IsSbc(inst) == BitAnd(inst, \hFC00) = \h0800

\* C12: CPC and SBC leave Z equal to (old Z AND the 8-bit result
\* (rd - rr - C) mod 256 is zero): Z is cleared when the 8-bit result is not
\* zero, left as it was when the result is zero, and never set.
C12_ZeroFlagOnlyCleared ==
    (AfterStep /\ (IsCpc(last.inst) \/ IsSbc(last.inst))) =>
        LET r == (last.rd - last.rr - Bit(last.sreg, AVR_SREG_CARRY)) % 256
        IN  Flag(mcu, AVR_SREG_ZERO) = (IF r = 0 THEN Bit(last.sreg, AVR_SREG_ZERO) ELSE 0)

\* CPC of 0x00 and 0xFF with C = 1 and Z = 1 has been stepped: the 8-bit
\* result is zero
C12_BorrowCase ==
    /\ AfterStep /\ IsCpc(last.inst)
    /\ last.rd = 0 /\ last.rr = 255 /\ last.sreg = 3

(***************************************************************************)
(* ADIW on register pairs: one ADIW R24,K is stepped for every K and for   *)
(* every pair value whose high byte is one of PairHighBytes.               *)
(***************************************************************************)
PairHighBytes == {0, 255}

InitAdiw ==
    /\ \E k \in 0 .. 63, lo \in 0 .. 255, hi \in PairHighBytes, sreg \in {0, 255} :
          mcu = [AluMachine(OP_ADIW(0, k), 0, 0, sreg) EXCEPT !.dm[24] = lo, !.dm[25] = hi]
    /\ build \in [reti_order : {<<"e", "h", "l">>}]
    /\ budget = 0
    /\ phase = "step"
    /\ ret = 0
    /\ last = NoHistory
    /\ tc0 = Tc0Reset
    /\ vcd = NoVcd
    /\ twin = NoTwin

\* ADIW takes two cycles: the driver loop runs on, with no interrupt raised
SpecAdiw == InitAdiw /\ [][DriverStep \/ Tick \/ DriverIrq]_vars

IsAdiw(inst) == BitAnd(inst, \hFF00) = \h9600

\* the value of the register pair R25:R24 of machine m
Pair24(m) == m.dm[24] + 256 * m.dm[25]

\* C13: ADIW stores (Rd+1:Rd + K) mod 65536 in the pair, sets Z exactly when
\* that 16-bit result is 0x0000 and C exactly when the addition carried out
\* of bit 15; ADIW R24,1 with R25:R24 = 0xFFFF gives 0x0000, C = 1, Z = 1.
C13_AdiwResultCarryZero ==
    [][(StepCall /\ IsAdiw(FetchWord(mcu)) /\ mcu.in_mcinst = 1 /\ mcu'.in_mcinst = 0) =>
          LET inst == FetchWord(mcu)
              k == (inst % 16) + 16 * ((inst \div 64) % 4)
              sum == Pair24(mcu) + k
          IN  /\ Pair24(mcu') = sum % 65536
              /\ Flag(mcu', AVR_SREG_ZERO) = (IF sum % 65536 = 0 THEN 1 ELSE 0)
              /\ Flag(mcu', AVR_SREG_CARRY) = (IF sum >= 65536 THEN 1 ELSE 0)]_vars

\* ADIW R24,1 has completed on the pair value 0xFFFF
C13_WrapCase ==
    /\ Completed /\ last.inst = OP_ADIW(0, 1)
    /\ Pair24(mcu) = 0 /\ Flag(mcu, AVR_SREG_CARRY) = 1

(***************************************************************************)
(* INC and DEC on every register value: one INC R16 or DEC R16 is stepped  *)
(* from every value of R16 and from four values of SREG.                   *)
(***************************************************************************)
InitIncDec ==
    /\ \E op \in {OP_INC(16), OP_DEC(16)}, rd \in 0 .. 255, sreg \in {0, 33, 222, 255} :
          mcu = AluMachine(op, rd, 0, sreg)
    /\ build \in [reti_order : {<<"e", "h", "l">>}]
    /\ budget = 0
    /\ phase = "step"
    /\ ret = 0
    /\ last = NoHistory
    /\ tc0 = Tc0Reset
    /\ vcd = NoVcd
    /\ twin = NoTwin

SpecIncDec == InitIncDec /\ [][DriverStep]_vars

IsInc(inst) == BitAnd(inst, \hFE0F) = \h9403
IsDec(inst) == BitAnd(inst, \hFE0F) = \h940A

\* C14: INC stores (rd + 1) mod 256 and sets V exactly when rd = 0x7F; DEC
\* stores (rd - 1) mod 256 and sets V exactly when rd = 0x80; both set Z to
\* (result = 0), N to bit 7 of the result, S to N XOR V and leave C and H
\* as they were.
C14_IncDecResultAndFlags ==
    [][(StepCall /\ (IsInc(FetchWord(mcu)) \/ IsDec(FetchWord(mcu)))) =>
          LET inst == FetchWord(mcu)
              d == (inst \div 16) % 32
              rd == mcu.dm[d]
              r == IF IsInc(inst) THEN (rd + 1) % 256 ELSE (rd - 1) % 256
              v == IF (IsInc(inst) /\ rd = 127) \/ (IsDec(inst) /\ rd = 128) THEN 1 ELSE 0
          IN  /\ mcu'.dm[d] = r
              /\ Flag(mcu', AVR_SREG_TWOSCOM_OF) = v
              /\ Flag(mcu', AVR_SREG_ZERO) = (IF r = 0 THEN 1 ELSE 0)
              /\ Flag(mcu', AVR_SREG_NEGATIVE) = Bit(r, 7)
              /\ Flag(mcu', AVR_SREG_SIGN) = (Bit(r, 7) + v) % 2
              /\ Flag(mcu', AVR_SREG_CARRY) = Flag(mcu, AVR_SREG_CARRY)
              /\ Flag(mcu', AVR_SREG_HALF_CARRY) = Flag(mcu, AVR_SREG_HALF_CARRY)]_vars

\* DEC of 0x80 has given 0x7F with V set and C and H still set
C14_Witness ==
    /\ AfterStep /\ IsDec(last.inst) /\ last.rd = 128 /\ last.sreg = 33
    /\ mcu.dm[16] = 127 /\ Flag(mcu, AVR_SREG_TWOSCOM_OF) = 1
    /\ Flag(mcu, AVR_SREG_CARRY) = 1 /\ Flag(mcu, AVR_SREG_HALF_CARRY) = 1

(***************************************************************************)
(* Skips over 32-bit instructions.                                         *)
(***************************************************************************)
IsCpse(inst) == BitAnd(inst, \hFC00) = \h1000
IsSbrc(inst) == BitAnd(inst, \hFE08) = \hFC00
IsSbrs(inst) == BitAnd(inst, \hFE08) = \hFE00
IsSbic(inst) == BitAnd(inst, \hFF00) = \h9900
IsSbis(inst) == BitAnd(inst, \hFF00) = \h9B00

\* the skip instruction inst finds its condition true in machine m
SkipTaken(m, inst) ==
    \/ IsCpse(inst) /\ m.dm[(inst \div 16) % 32] = m.dm[(inst % 16) + 16 * ((inst \div 512) % 2)]
    \/ IsSbrc(inst) /\ Bit(m.dm[(inst \div 16) % 32], inst % 8) = 0
    \/ IsSbrs(inst) /\ Bit(m.dm[(inst \div 16) % 32], inst % 8) = 1
    \/ IsSbic(inst) /\ Bit(m.dm[32 + ((inst \div 8) % 32)], inst % 8) = 0
    \/ IsSbis(inst) /\ Bit(m.dm[32 + ((inst \div 8) % 32)], inst % 8) = 1

\* the first word of LDS, STS, JMP or CALL in the AVR instruction set
TwoWordInstruction(w) ==
    \/ BitAnd(w, \hFE0F) = \h9000
    \/ BitAnd(w, \hFE0F) = \h9200
    \/ BitAnd(w, \hFE0E) = \h940C
    \/ BitAnd(w, \hFE0E) = \h940E

\* C15: when CPSE, SBRC, SBRS, SBIC or SBIS finds its condition true and the
\* instruction that follows is LDS, STS, JMP or CALL, PC advances by 6.
C15_SkipOver32BitAdvancesBySix ==
    [][(/\ StepCall
        /\ SkipTaken(mcu, FetchWord(mcu))
        /\ TwoWordInstruction(PmWord(mcu, mcu.pc + 2))
        /\ mcu.in_mcinst = 1 /\ mcu'.in_mcinst = 0)
          => mcu'.pc = mcu.pc + 6]_vars

\* CPSE with equal registers has completed in front of a CALL
C15_CpseBeforeCall ==
    /\ Completed /\ IsCpse(last.inst) /\ last.rd = last.rr
    /\ PmWord(mcu, last.pc + 2) = OP_CALL

(***************************************************************************)
(* The global interrupt flag.                                              *)
(***************************************************************************)
\* the I flag of m2 differs from the I flag of m1
ChangesI(m1, m2) ==
    MSIM_AVR_ReadSREGFlag(m2, AVR_SREG_GLOB_INT) # MSIM_AVR_ReadSREGFlag(m1, AVR_SREG_GLOB_INT)

\* the arbiter accepts an interrupt in this step
Acceptance == ArbiterCall /\ IrqTaken(mcu) # 0

StoresToSreg(m, inst) ==
    \/ BitAnd(inst, \hF800) = \hB800
          /\ (inst % 16) + 16 * ((inst \div 512) % 4) + m.sfr_off = SREG_ADDR
    \/ BitAnd(inst, \hFE0F) = \h9200 /\ PmWord(m, m.pc + 2) = SREG_ADDR
    \/ BitAnd(inst, \hFE0F) \in {\h920C, \h920D} /\ m.dm[26] + 256 * m.dm[27] = SREG_ADDR
    \/ BitAnd(inst, \hFE0F) = \h920E /\ m.dm[26] + 256 * m.dm[27] = SREG_ADDR + 1

M328P ==
    [PIND |-> 41, DDRB |-> 36, PORTD |-> 43, TIFR0 |-> 53,
     TCCR0A |-> 68, TCCR0B |-> 69, TCNT0 |-> 70, OCR0A |-> 71,
     OCR0B |-> 72, PD4 |-> 4, PD5 |-> 5, PD6 |-> 6, TOV0 |-> 0,
     OCF0A |-> 1, OCF0B |-> 2, WGM00 |-> 0, WGM01 |-> 1, WGM02 |-> 3,
     COM0B0 |-> 4, COM0B1 |-> 5, COM0A0 |-> 6, COM0A1 |-> 7,
     SPMCSR |-> 87]
PIND == M328P.PIND
DDRB == M328P.DDRB
PORTD == M328P.PORTD
TIFR0 == M328P.TIFR0
TCCR0A == M328P.TCCR0A
TCCR0B == M328P.TCCR0B
TCNT0 == M328P.TCNT0
OCR0A == M328P.OCR0A
OCR0B == M328P.OCR0B
PD4 == M328P.PD4
PD5 == M328P.PD5
PD6 == M328P.PD6
TOV0 == M328P.TOV0
OCF0A == M328P.OCF0A
OCF0B == M328P.OCF0B
WGM00 == M328P.WGM00
WGM01 == M328P.WGM01
WGM02 == M328P.WGM02
COM0B0 == M328P.COM0B0
COM0B1 == M328P.COM0B1
COM0A0 == M328P.COM0A0
COM0A1 == M328P.COM0A1
SPMCSR == M328P.SPMCSR
NOT_CONNECTED == 255
A_CHAN == 79
B_CHAN == 80

IS_SET(byte, bit) == Bit(byte, bit)
IS_RISE(init, val, bit) == (1 - Bit(init, bit)) * Bit(val, bit)
IS_FALL(init, val, bit) == Bit(init, bit) * (1 - Bit(val, bit))
CLEAR(byte, bit) == byte - Bit(byte, bit) * 2 ^ bit
SET(byte, bit) == BitOr(byte, 2 ^ bit)

\* what reading *ticks in timer0_normal can give: tick_timer0 passes the
\* value of tc0_ticks where a pointer is expected, so the byte read is
\* whatever lies at that address, or the process dies (-1)
Died == -1
BadReads == {Died, 0, 7, 63, 255}
\* what the assignment of line 233 can leave in TIFR0: its right-hand side,
\* DM(1TOV0), names no byte of data memory
JunkBytes == {0, 1, 255}

\* the switch of timer1_oc1_nonpwm on com: toggle, clear, set
timer1_oc1_nonpwm(m, com0a, com0b, chan) ==
    LET pin == IF chan = A_CHAN THEN PD6 ELSE PD5
        com0 == IF chan = A_CHAN THEN com0a ELSE IF chan = B_CHAN THEN com0b
                ELSE NOT_CONNECTED
        com == IF com0 # NOT_CONNECTED /\ IS_SET(m.dm[DDRB], pin) = 0
               THEN NOT_CONNECTED ELSE com0
    IN  CASE com = 1 -> [m EXCEPT !.dm[PORTD] =
                            IF IS_SET(@, pin) = 1 THEN CLEAR(@, pin) ELSE SET(@, pin)]
          [] com = 2 -> [m EXCEPT !.dm[PORTD] = CLEAR(@, pin)]
          [] com = 3 -> [m EXCEPT !.dm[PORTD] = SET(@, pin)]
          [] OTHER -> m

\* ticks is the byte read through the pointer, junk what line 233 stores;
\* the writes through the pointer ((*ticks)++ and *ticks = 0) reach no
\* object of the model
timer0_normal(m, presc, ticks, com0a, com0b, junk) ==
    IF ticks < presc - 1 THEN m
    ELSE IF ticks > presc - 1 THEN m
    ELSE IF m.dm[TCNT0] = 255
         THEN [m EXCEPT !.dm[TCNT0] = 0, !.dm[TIFR0] = junk]
    ELSE IF m.dm[TCNT0] = m.dm[OCR0A]
         THEN LET m1 == [m EXCEPT !.dm[TIFR0] = m.dm[OCF0A]]
                  m2 == timer1_oc1_nonpwm(m1, com0a, com0b, A_CHAN)
              IN  [m2 EXCEPT !.dm[TCNT0] = U8(@ + 1)]
    ELSE IF m.dm[TCNT0] = m.dm[OCR0B]
         THEN LET m1 == [m EXCEPT !.dm[TIFR0] = m.dm[OCR0B]]
                  m2 == timer1_oc1_nonpwm(m1, com0a, com0b, B_CHAN)
              IN  [m2 EXCEPT !.dm[TCNT0] = U8(@ + 1)]
    ELSE [m EXCEPT !.dm[TCNT0] = U8(@ + 1)]

\* the counting step that tick_timer0 spells out three times
CountUp(m) ==
    IF m.dm[TCNT0] = 255
    THEN [m EXCEPT !.dm[TCNT0] = 0, !.dm[TIFR0] = BitOr(@, 2 ^ TOV0)]
    ELSE [m EXCEPT !.dm[TCNT0] = @ + 1]

\* lines 170-176 of tick_timer0: a changed prescaler restarts the count
ReloadPrescaler_OnlyWhenStopped(m, t, presc) ==
    IF t.tc0_presc = 0
    THEN [t EXCEPT !.missed_cm = IF m.dm[TCNT0] > m.dm[OCR0A] THEN 1 ELSE @,
                   !.tc0_presc = presc, !.tc0_ticks = 0]
    ELSE t
ReloadPrescaler(m, t, presc) ==
    IF presc # t.tc0_presc
    THEN [t EXCEPT !.missed_cm = IF t.tc0_presc = 0 /\ m.dm[TCNT0] > m.dm[OCR0A]
                                 THEN 1 ELSE @,
                   !.tc0_presc = presc, !.tc0_ticks = 0]
    ELSE t

\* tick_timer0: m is the device, t the statics; the result is both
tick_timer0(m, t, ticks, junk) ==
    LET cs0 == BitAnd(m.dm[TCCR0B], 7)
        wgm0 == BitOr(BitOr(BitAnd(Shr(m.dm[TCCR0A], WGM00), 1),
                            BitAnd(Shr(m.dm[TCCR0A], WGM01), 2)),
                      BitAnd(Shr(m.dm[TCCR0B], WGM02), 8))
        com0a == BitOr(BitAnd(Shr(m.dm[TCCR0A], COM0A0), 6),
                       BitAnd(Shr(m.dm[TCCR0A], COM0A1), 7))
        com0b == BitOr(BitAnd(Shr(m.dm[TCCR0A], COM0B0), 4),
                       BitAnd(Shr(m.dm[TCCR0A], COM0B1), 5))
        stopped == [t EXCEPT !.tc0_presc = 0, !.tc0_ticks = 0]
        presc == CASE cs0 = 1 -> 1
                   [] cs0 = 2 -> 8
                   [] cs0 = 3 -> 64
                   [] cs0 = 4 -> 256
                   [] OTHER -> 1024
        t1 == ReloadPrescaler(m, t, presc)
    IN  CASE cs0 = 6 ->
               [mcu |-> IF IS_FALL(t.init_portd, m.dm[PORTD], PD4) = 1
                           \/ IS_FALL(t.init_pind, m.dm[PIND], PD4) = 1
                        THEN CountUp(m) ELSE m,
                tc0 |-> stopped]
          [] cs0 = 7 ->
               [mcu |-> IF IS_RISE(t.init_portd, m.dm[PORTD], PD4) = 1
                           \/ IS_RISE(t.init_pind, m.dm[PIND], PD4) = 1
                        THEN CountUp(m) ELSE m,
                tc0 |-> stopped]
          [] cs0 = 0 -> [mcu |-> m, tc0 |-> stopped]
          [] OTHER ->
               IF t1.tc0_ticks = t1.tc0_presc - 1
               THEN [mcu |-> CountUp(m), tc0 |-> [t1 EXCEPT !.tc0_ticks = 0]]
               ELSE CASE wgm0 = 0 ->
                          IF ticks = Died
                          THEN [mcu |-> m, tc0 |-> [t1 EXCEPT !.crashed = TRUE]]
                          ELSE [mcu |-> timer0_normal(m, t1.tc0_presc, ticks, com0a, com0b, junk),
                                tc0 |-> t1]
                      [] wgm0 \in {1, 2, 3} -> [mcu |-> m, tc0 |-> t1]
                      [] OTHER ->
                          [mcu |-> m,
                           tc0 |-> [t1 EXCEPT !.old_wgm0 = wgm0, !.tc0_presc = 0,
                                              !.tc0_ticks = 0]]

\* the level of the T0 pin as PORTD shows it
T0(m) == Bit(m.dm[PORTD], PD4)
InternalClock(m) == BitAnd(m.dm[TCCR0B], 7) \in 1 .. 5

\* MSIM_M328PTickPerf: one tick of the device's peripherals
MSIM_M328PTickPerf ==
    /\ ~tc0.crashed
    /\ mcu.state \notin {AVR_MSIM_STOP, AVR_MSIM_TESTFAIL}
    /\ \E ticks \in BadReads, junk \in JunkBytes :
          LET r == tick_timer0(mcu, tc0, ticks, junk)
          IN  /\ mcu' = r.mcu
              /\ tc0' = [r.tc0 EXCEPT !.n = IF InternalClock(mcu) THEN Min(@ + 1, MaxTicks)
                                            ELSE @,
                                      !.t0_prev = T0(mcu)]
    /\ UNCHANGED <<build, budget, ret, last, vcd, twin>>

\* an external model drives the T0 pin through PORTD bit 4
TogglePin ==
    /\ mcu.state \notin {AVR_MSIM_STOP, AVR_MSIM_TESTFAIL}
    /\ mcu' = [mcu EXCEPT !.dm[PORTD] = IF T0(mcu) = 1 THEN CLEAR(@, PD4) ELSE SET(@, PD4)]
    /\ UNCHANGED <<build, budget, ret, last, tc0, vcd, twin>>

\* Normal mode, clock cs0, TCNT0 = 0; tifr0 holds the flags other than TOV0
TimerMachine(cs0, tifr0) == [AluBase EXCEPT !.dm[TCCR0B] = cs0, !.dm[TIFR0] = tifr0]

InitTimerWith(clocks) ==
    /\ \E cs0 \in clocks, tifr0 \in {0, 2 ^ OCF0A} : mcu = TimerMachine(cs0, tifr0)
    /\ build \in [reti_order : {<<"e", "h", "l">>}]
    /\ budget = 0
    /\ phase = "timer"
    /\ ret = 0
    /\ last = NoHistory
    /\ tc0 = Tc0Reset
    /\ vcd = NoVcd
    /\ twin = NoTwin

\* Timer/Counter0 on the internal clock, Normal mode, from TCNT0 = 0
TimerTick == MSIM_M328PTickPerf /\ UNCHANGED phase
InitTimer == InitTimerWith(1 .. 5)
SpecTimer == InitTimer /\ [][TimerTick]_vars

\* Timer/Counter0 on the T0 pin; the pin changes at any time
PinToggle == TogglePin /\ UNCHANGED phase
InitT0 == InitTimerWith({6, 7})
SpecT0 == InitT0 /\ [][TimerTick \/ PinToggle]_vars

\* the prescaler that CS0 selects on the internal clock
Prescaler(m) ==
    CASE BitAnd(m.dm[TCCR0B], 7) = 1 -> 1
      [] BitAnd(m.dm[TCCR0B], 7) = 2 -> 8
      [] BitAnd(m.dm[TCCR0B], 7) = 3 -> 64
      [] BitAnd(m.dm[TCCR0B], 7) = 4 -> 256
      [] OTHER -> 1024

\* C17: in Normal mode on the internal clock (CS0 = 1..5, prescaler P = 1,
\* 8, 64, 256, 1024) TCNT0 advances by one every P ticks: n ticks after a
\* start from TCNT0 = 0 with TOV0 clear, TCNT0 is (n div P) mod 256, and
\* TOV0 is set exactly from tick 256 * P on, when TCNT0 has wrapped once.
C17_CountsOncePerPrescalerPeriod ==
    (InternalClock(mcu) /\ tc0.n < MaxTicks)
        => /\ mcu.dm[TCNT0] = (tc0.n \div Prescaler(mcu)) % 256
           /\ Bit(mcu.dm[TIFR0], TOV0) = (IF tc0.n >= 256 * Prescaler(mcu) THEN 1 ELSE 0)

\* without prescaling the counter has wrapped after 256 ticks
C17_WrapCase ==
    /\ Prescaler(mcu) = 1 /\ InternalClock(mcu)
    /\ tc0.n = 256 /\ mcu.dm[TCNT0] = 0 /\ Bit(mcu.dm[TIFR0], TOV0) = 1

\* C18: a timer tick sets TOV0 exactly when it takes TCNT0 from 0xFF to 0;
\* every other tick leaves all of TIFR0 as it was, the wrapping tick leaves
\* the other bits of TIFR0 as they were, and no tick clears TOV0.
C18_TickSetsOnlyTov0OnWrap ==
    [][TimerTick =>
          mcu'.dm[TIFR0] = IF mcu.dm[TCNT0] = 255 /\ mcu'.dm[TCNT0] = 0
                           THEN BitOr(mcu.dm[TIFR0], 2 ^ TOV0)
                           ELSE mcu.dm[TIFR0]]_vars

\* the wrapping tick has set TOV0 next to a flag that was set before
C18_WrapKeepsOtherFlags ==
    /\ InternalClock(mcu) /\ Prescaler(mcu) = 1 /\ tc0.n = 256
    /\ mcu.dm[TCNT0] = 0 /\ mcu.dm[TIFR0] = 2 ^ OCF0A + 2 ^ TOV0

\* the edge that CS0 = 6 (falling) or CS0 = 7 (rising) counts, between the
\* level the previous tick sampled and the level now
ConfiguredEdge(m, before, now) ==
    IF BitAnd(m.dm[TCCR0B], 7) = 6 THEN before = 1 /\ now = 0 ELSE before = 0 /\ now = 1

\* C19: on the external clock (CS0 = 6 falling edge, CS0 = 7 rising edge) a
\* tick advances TCNT0 by one (wrapping from 0xFF to 0 and setting TOV0)
\* when the T0 level differs in the configured direction from the level the
\* previous tick sampled, and leaves TCNT0 alone otherwise, so a constant
\* level never moves TCNT0.
C19_CountsConfiguredEdgesOnly ==
    [][(TimerTick /\ ~InternalClock(mcu)) =>
          IF ConfiguredEdge(mcu, tc0.t0_prev, T0(mcu))
          THEN /\ mcu'.dm[TCNT0] = (mcu.dm[TCNT0] + 1) % 256
               /\ mcu.dm[TCNT0] = 255 => Bit(mcu'.dm[TIFR0], TOV0) = 1
          ELSE mcu'.dm[TCNT0] = mcu.dm[TCNT0]]_vars

\* a tick has seen T0 high after a tick that saw it low, and has counted
C19_RisingEdgeCounted ==
    /\ BitAnd(mcu.dm[TCCR0B], 7) = 7 /\ tc0.t0_prev = 1 /\ T0(mcu) = 1
    /\ mcu.dm[TCNT0] = 1

(***************************************************************************)
(* The test of the external clock source: check-timer0.lua watches TCNT0   *)
(* once per tick while an external model toggles the T0 pin once per tick. *)
(***************************************************************************)
\* the number of ticks check-timer0.lua waits before it gives up
TEST_TICKS == 100000

\* module_tick of check-timer0.lua
module_tick(m, t) ==
    LET tcnt0 == m.dm[TCNT0]
        t1 == [t EXCEPT !.ticks_passed = @ + 1]
    IN  IF t.check_point = 0 /\ tcnt0 = 0
        THEN [mcu |-> m, tc0 |-> [t1 EXCEPT !.check_point = @ + 1]]
        ELSE IF t.check_point = 1 /\ tcnt0 = 255
        THEN [mcu |-> m, tc0 |-> [t1 EXCEPT !.check_point = @ + 1]]
        ELSE IF t.check_point = 2 /\ tcnt0 = 0
        THEN [mcu |-> [m EXCEPT !.state = AVR_MSIM_STOP], tc0 |-> t1]
        ELSE IF t.ticks_passed > TEST_TICKS
        THEN [mcu |-> [m EXCEPT !.state = AVR_MSIM_TESTFAIL], tc0 |-> t1]
        ELSE [mcu |-> m, tc0 |-> t1]

\* one iteration of the simulation: the pin model, the test script, the timer
TestPin == phase = "pin" /\ TogglePin /\ phase' = "lua"
TestLua ==
    /\ phase = "lua"
    /\ mcu.state \notin {AVR_MSIM_STOP, AVR_MSIM_TESTFAIL}
    /\ mcu' = module_tick(mcu, tc0).mcu
    /\ tc0' = module_tick(mcu, tc0).tc0
    /\ phase' = "timer"
    /\ UNCHANGED <<build, budget, ret, last, vcd, twin>>
TestTimer == phase = "timer" /\ MSIM_M328PTickPerf /\ phase' = "pin"
TestNext == TestPin \/ TestLua \/ TestTimer

InitT0Test ==
    /\ \E cs0 \in {6, 7} : mcu = TimerMachine(cs0, 0)
    /\ build \in [reti_order : {<<"e", "h", "l">>}]
    /\ budget = 0
    /\ phase = "pin"
    /\ ret = 0
    /\ last = NoHistory
    /\ tc0 = Tc0Reset
    /\ vcd = NoVcd
    /\ twin = NoTwin

\* the simulation goes on until the script stops it
SpecT0Test == InitT0Test /\ [][TestNext]_vars /\ WF_vars(TestNext)

\* C20: with Timer0 clocked from the T0 pin and the pin toggled on every
\* tick, TCNT0 reads 0 at the start, later 255 and after that 0 again, at
\* which check-timer0.lua stops the simulation; the script never gives up
\* and marks the test failed.
C20_T0TestReaches255ThenZero ==
    /\ mcu.dm[TCNT0] = 0
    /\ <>(mcu.dm[TCNT0] = 255 /\ <>(mcu.dm[TCNT0] = 0 /\ mcu.state = AVR_MSIM_STOP))
    /\ [](mcu.state # AVR_MSIM_TESTFAIL)

\* on the rising edge the script has seen 0, 255 and 0 and has stopped
C20_TestStopped ==
    /\ BitAnd(mcu.dm[TCCR0B], 7) = 7 /\ mcu.state = AVR_MSIM_STOP
    /\ tc0.check_point = 2 /\ mcu.dm[TCNT0] = 0

(***************************************************************************)
(* Timer/Counter0 in every waveform-generation mode that TCCR0A selects.   *)
(***************************************************************************)
\* the compare value the modes count to
CompareTop == 3

\* WGM01:0 as the datasheet reads them from TCCR0A: 0 Normal, 1 PWM
\* (phase correct), 2 CTC, 3 fast PWM; all with WGM02 = 0
WaveformMode(m) == BitAnd(m.dm[TCCR0A], 3)
\* TOP of the selected mode: OCR0A in CTC mode, 0xFF in the others
Top(m) == IF WaveformMode(m) = 2 THEN m.dm[OCR0A] ELSE 255

\* the clock selects tried: no prescaling, clk/8, T0 falling, T0 rising
ModeClocks == {1, 2, 6, 7}

InitModes ==
    /\ \E cs0 \in ModeClocks, wgm \in 0 .. 3, t0 \in {0, 1} :
          mcu = [TimerMachine(cs0, 0) EXCEPT !.dm[TCCR0A] = wgm, !.dm[OCR0A] = CompareTop,
                                             !.dm[PORTD] = t0 * 2 ^ PD4]
    /\ build \in [reti_order : {<<"e", "h", "l">>}]
    /\ budget = 0
    /\ phase = "timer"
    /\ ret = 0
    /\ last = NoHistory
    /\ tc0 = Tc0Reset
    /\ vcd = NoVcd
    /\ twin = NoTwin

\* the T0 pin is held at its level
SpecModes == InitModes /\ [][TimerTick]_vars

\* C21: after every timer tick, in every waveform-generation mode and for
\* every clock select, TCNT0 is at most the TOP of the mode (0xFF in Normal
\* mode, OCR0A in CTC mode), given that it was at most TOP before the tick;
\* the timer starts from TCNT0 = 0.
C21_CounterAtMostTop == mcu.dm[TCNT0] <= Top(mcu)

\* in CTC mode the counter has reached TOP
C21_AtTop ==
    /\ WaveformMode(mcu) = 2 /\ InternalClock(mcu) /\ Prescaler(mcu) = 1
    /\ tc0.n = CompareTop /\ mcu.dm[TCNT0] = mcu.dm[OCR0A]

\* C22: on the internal clock, with every prescaler, a tick that counts
\* from TCNT0 = OCR0A sets OCF0A in TIFR0, and a tick that counts from
\* TCNT0 = OCR0B sets OCF0B.
C22_CompareMatchSetsFlag ==
    [][(TimerTick /\ InternalClock(mcu) /\ mcu'.dm[TCNT0] # mcu.dm[TCNT0]) =>
          /\ mcu.dm[TCNT0] = mcu.dm[OCR0A] => Bit(mcu'.dm[TIFR0], OCF0A) = 1
          /\ mcu.dm[TCNT0] = mcu.dm[OCR0B] => Bit(mcu'.dm[TIFR0], OCF0B) = 1]_vars

\* without prescaling a tick has counted on from the match with OCR0A
C22_CountedFromMatch ==
    /\ InternalClock(mcu) /\ Prescaler(mcu) = 1 /\ WaveformMode(mcu) = 0
    /\ tc0.n = CompareTop + 1 /\ mcu.dm[TCNT0] = mcu.dm[OCR0A] + 1

(***************************************************************************)
(* SPM on a device with the SPMCSR register: the flash holds data on four  *)
(* pages from SpmData on, and Z points into the first three of them.       *)
(***************************************************************************)
OP_SPM == \h95E8
OP_SPM_INC == \h95F8
SpmPageSize == 4
SpmData == 64

InitSpm ==
    /\ \E op \in {OP_SPM, OP_SPM_INC}, c \in {1, 3, 5},
          z \in SpmData .. (SpmData + 3 * SpmPageSize - 1) :
          mcu = [AluMachine(op, 0, 0, 0) EXCEPT
                    !.spmcsr = SPMCSR, !.spm_pagesize = SpmPageSize,
                    !.dm[SPMCSR] = c, !.dm[REG_ZL] = z, !.dm[REG_ZH] = 0,
                    !.dm[0] = 52, !.dm[1] = 18,
                    !.pm = Merge(@, [a \in SpmData .. (SpmData + 4 * SpmPageSize - 1) |-> a]),
                    !.pmp = [a \in 0 .. (SpmData + 4 * SpmPageSize - 1) |-> 0]]
    /\ build \in [reti_order : {<<"e", "h", "l">>}]
    /\ budget = 0
    /\ phase = "step"
    /\ ret = 0
    /\ last = NoHistory
    /\ tc0 = Tc0Reset
    /\ vcd = NoVcd
    /\ twin = NoTwin

SpecSpm == InitSpm /\ [][DriverStep]_vars

IsSpm(inst) == inst \in {OP_SPM, OP_SPM_INC}
ZPointer(m) == m.dm[REG_ZL] + 256 * m.dm[REG_ZH]
\* the flash page that contains address z
PageOf(m, z) ==
    LET base == z - (z % m.spm_pagesize) IN base .. (base + m.spm_pagesize - 1)

\* C23: SPM with SPMCSR[2:0] = 0b011 sets every byte of the flash page that
\* contains Z to 0xFF and changes no flash byte outside that page, whether Z
\* is page-aligned or not.
C23_PageEraseClearsPageOfZ ==
    [][(StepCall /\ IsSpm(FetchWord(mcu)) /\ BitAnd(mcu.dm[SPMCSR], 7) = 3) =>
          \A a \in 0 .. (SpmData + 5 * SpmPageSize) :
             PmByte(mcu', a) = IF a \in PageOf(mcu, ZPointer(mcu)) THEN 255
                               ELSE PmByte(mcu, a)]_vars

\* a page erase with Z at the start of the second data page has cleared it
C23_AlignedErase ==
    /\ AfterStep /\ IsSpm(last.inst) /\ BitAnd(mcu.dm[SPMCSR], 7) = 3
    /\ \A a \in PageOf(mcu, SpmData + SpmPageSize) : PmByte(mcu, a) = 255
    /\ PmByte(mcu, SpmData) = SpmData
    /\ PmByte(mcu, SpmData + 2 * SpmPageSize) = SpmData + 2 * SpmPageSize

(***************************************************************************)
(* The VCD dump (avr_vcd.c).  vcd.regs is the array of selected signals,   *)
(* closed by an entry with i < 0; ioregs[i].addr is taken to point to      *)
(* dm[i].  vcd.frame is what the last call of MSIM_AVR_VCDDumpFrame wrote  *)
(* to the dump file, line by line.                                         *)
(***************************************************************************)
\* the bits of reg from bit rbits - 1 down to bit 0, as '0' and '1'
PrintBits(reg, rbits) == [k \in 1 .. rbits |-> Bit(reg, rbits - k)]
print_reg16(hr, lr) == PrintBits(BitOr(BitAnd(Shl(hr, 8), \hFF00), BitAnd(lr, \h00FF)), 16)
print_reg(r) == PrintBits(r, 8)
print_regbit(r, bit) == <<Bit(r, bit)>>

\* the signals before the closing entry
VcdSelected(v) == {k \in 1 .. Len(v.regs) : \A j \in 1 .. k : v.regs[j].i >= 0}
\* reg_val as the three loops compute it
VcdRegVal(m, reg) ==
    IF reg.reg_lowi >= 0
    THEN BitOr(BitAnd(Shl(m.dm[reg.i], 8), \hFF00), BitAnd(m.dm[reg.reg_lowi], \h00FF))
    ELSE m.dm[reg.i]
\* the first loop: has a register changed?
VcdNewValue(m, v) ==
    \E k \in VcdSelected(v) :
       LET reg == v.regs[k]
           reg_val == VcdRegVal(m, reg)
       IN  \/ reg.n < 0 /\ reg_val # reg.old_val
           \/ reg.n >= 0 /\ Bit(reg_val, reg.n) # Bit(reg.old_val, reg.n)
\* the second loop: is the signal printed?
VcdPrinted(m, reg) == VcdRegVal(m, reg) # reg.old_val
\* the line of one signal: its index, the value and the bit number
VcdLine(m, k, reg) ==
    [sig |-> k,
     bits |-> IF reg.reg_lowi >= 0 THEN print_reg16(m.dm[reg.i], m.dm[reg.reg_lowi])
              ELSE IF reg.n < 0 THEN print_reg(VcdRegVal(m, reg) % 256)
              ELSE print_regbit(VcdRegVal(m, reg) % 256, reg.n),
     n |-> reg.n]
RECURSIVE VcdLines(_, _, _)
VcdLines(m, v, k) ==
    IF k \notin VcdSelected(v) THEN << >>
    ELSE IF VcdPrinted(m, v.regs[k]) THEN <<VcdLine(m, k, v.regs[k])>> \o VcdLines(m, v, k + 1)
    ELSE VcdLines(m, v, k + 1)

MSIM_AVR_VCDDumpFrame(m, v, tick) ==
    IF ~VcdNewValue(m, v) THEN [v EXCEPT !.frame = << >>]
    ELSE [regs |-> [k \in 1 .. Len(v.regs) |->
                       IF k \in VcdSelected(v) /\ VcdRegVal(m, v.regs[k]) # v.regs[k].old_val
                       THEN [v.regs[k] EXCEPT !.old_val = VcdRegVal(m, v.regs[k])]
                       ELSE v.regs[k]],
          frame |-> <<[tick |-> tick]>> \o VcdLines(m, v, 1)]

\* the registers the dump follows and the values the program gives them
VcdBit == 37
VcdByte == 40
VcdLow == 41
VcdHigh == 42
VcdValues == {0, 1, 2}
VcdTicks == {1, 2}

InitVcd ==
    /\ mcu = AluBase
    /\ build \in [reti_order : {<<"e", "h", "l">>}]
    /\ budget = 0
    /\ phase = "vcd"
    /\ ret = 0
    /\ last = NoHistory
    /\ tc0 = Tc0Reset
    /\ twin = NoTwin
    /\ vcd = [regs |-> <<[i |-> VcdBit, reg_lowi |-> -1, n |-> 0, old_val |-> 0],
                         [i |-> VcdByte, reg_lowi |-> -1, n |-> -1, old_val |-> 0],
                         [i |-> VcdHigh, reg_lowi |-> VcdLow, n |-> -1, old_val |-> 0],
                         [i |-> -1, reg_lowi |-> -1, n |-> -1, old_val |-> 0]>>,
              frame |-> << >>]

\* the program writes to one of the registers
VcdWrite ==
    /\ \E a \in {VcdBit, VcdByte, VcdLow, VcdHigh}, x \in VcdValues :
          mcu' = [mcu EXCEPT !.dm[a] = x]
    /\ UNCHANGED <<build, budget, phase, ret, last, tc0, vcd, twin>>

VcdDump ==
    /\ \E tick \in VcdTicks : vcd' = MSIM_AVR_VCDDumpFrame(mcu, vcd, tick)
    /\ UNCHANGED <<mcu, build, budget, phase, ret, last, tc0, twin>>

SpecVcd == InitVcd /\ [][VcdWrite \/ VcdDump]_vars

\* the value of a signal: the bit for a single bit, else the register or pair
VcdOwnValue(m, reg) ==
    IF reg.n >= 0 THEN Bit(VcdRegVal(m, reg), reg.n) ELSE VcdRegVal(m, reg)
VcdOwnOld(reg) == IF reg.n >= 0 THEN Bit(reg.old_val, reg.n) ELSE reg.old_val
VcdChanged(m, v) == {k \in VcdSelected(v) : VcdOwnValue(m, v.regs[k]) # VcdOwnOld(v.regs[k])}
VcdListed(frame) == {frame[j].sig : j \in 2 .. Len(frame)}

\* C24: MSIM_AVR_VCDDumpFrame writes a #tick block only when a selected
\* signal (register, pair or single bit) differs from its last dumped value;
\* the block lists exactly the signals whose own value changed, and after the
\* call the remembered value of every listed signal is its current value.
C24_DumpListsExactlyChangedSignals ==
    [][VcdDump =>
          /\ (vcd'.frame # << >>) <=> (VcdChanged(mcu, vcd) # {})
          /\ vcd'.frame # << >> => VcdListed(vcd'.frame) = VcdChanged(mcu, vcd)
          /\ \A k \in VcdListed(vcd'.frame) :
                VcdOwnOld(vcd'.regs[k]) = VcdOwnValue(mcu, vcd.regs[k])]_vars

\* a block that lists the pair and the byte, but not the bit
C24_BlockWritten ==
    /\ Len(vcd.frame) = 3 /\ VcdListed(vcd.frame) = {2, 3}
    /\ vcd.regs[3].old_val = 256 + 2

(***************************************************************************)
(* Two simulator instances in one process: twin.a is the second instance,  *)
(* which shares the statics tc0 with mcu; twin.alone is mcu as it would be *)
(* in a process of its own, ticked whenever mcu is ticked and reading the  *)
(* same bytes where the code reads through the bad pointer.                *)
(***************************************************************************)
\* ticks of both instances together
MaxTwinTicks == 5

InitTwo ==
    /\ \E csb \in ModeClocks, tcnt \in {0, 254}, csa \in 0 .. 7 :
          /\ mcu = [TimerMachine(csb, 0) EXCEPT !.dm[TCNT0] = tcnt, !.dm[PORTD] = 2 ^ PD4]
          /\ twin = [a |-> [TimerMachine(csa, 0) EXCEPT !.dm[TCNT0] = 255, !.dm[PORTD] = 2 ^ PD4],
                     alone |-> [mcu |-> [TimerMachine(csb, 0) EXCEPT !.dm[TCNT0] = tcnt,
                                                                     !.dm[PORTD] = 2 ^ PD4],
                                tc0 |-> Tc0Reset],
                     order |-> << >>]
    /\ build \in [reti_order : {<<"e", "h", "l">>}]
    /\ budget = 0
    /\ phase = "timer"
    /\ ret = 0
    /\ last = NoHistory
    /\ tc0 = Tc0Reset
    /\ vcd = NoVcd

\* MSIM_M328PTickPerf of the second instance
TickOther ==
    /\ ~tc0.crashed /\ Len(twin.order) < MaxTwinTicks
    /\ \E ticks \in BadReads, junk \in JunkBytes :
          LET r == tick_timer0(twin.a, tc0, ticks, junk)
          IN  /\ tc0' = r.tc0
              /\ twin' = [twin EXCEPT !.a = r.mcu, !.order = Append(@, "a")]
    /\ UNCHANGED <<mcu, build, budget, phase, ret, last, vcd>>

\* MSIM_M328PTickPerf of mcu, next to the second instance and on its own
TickBoth ==
    /\ ~tc0.crashed /\ ~twin.alone.tc0.crashed /\ Len(twin.order) < MaxTwinTicks
    /\ \E ticks \in BadReads, junk \in JunkBytes :
          LET r == tick_timer0(mcu, tc0, ticks, junk)
              q == tick_timer0(twin.alone.mcu, twin.alone.tc0, ticks, junk)
          IN  /\ mcu' = r.mcu
              /\ tc0' = r.tc0
              /\ twin' = [twin EXCEPT !.alone = q, !.order = Append(@, "b")]
    /\ UNCHANGED <<build, budget, phase, ret, last, vcd>>

SpecTwo == InitTwo /\ [][TickOther \/ TickBoth]_vars

SbiwLowBytes == (0 .. 64) \cup {255}
SbiwHighBytes == {0, 128, 255}

InitSbiw ==
    /\ \E k \in 0 .. 63, lo \in SbiwLowBytes, hi \in SbiwHighBytes, sreg \in {0, 255} :
          mcu = [AluMachine(OP_SBIW(0, k), 0, 0, sreg) EXCEPT !.dm[24] = lo, !.dm[25] = hi]
    /\ build \in [reti_order : {<<"e", "h", "l">>}]
    /\ budget = 0
    /\ phase = "step"
    /\ ret = 0
    /\ last = NoHistory
    /\ tc0 = Tc0Reset
    /\ vcd = NoVcd
    /\ twin = NoTwin

\* SBIW takes two cycles: the driver loop runs on, with no interrupt raised
SpecSbiw == InitSbiw /\ [][DriverStep \/ Tick \/ DriverIrq]_vars

IsSbiw(inst) == BitAnd(inst, \hFF00) = \h9700

\* C26: SBIW stores r = (rd - K) mod 65536 in the pair and sets C = 1
\* exactly when K > rd, V = 1 exactly when rd has bit 15 set and r has bit 15
\* clear, N = bit 15 of r, Z = 1 exactly when r = 0, and S = N xor V.
C26_SbiwResultAndFlags ==
    [][(StepCall /\ IsSbiw(FetchWord(mcu)) /\ mcu.in_mcinst = 1 /\ mcu'.in_mcinst = 0) =>
          LET inst == FetchWord(mcu)
              k == (inst % 16) + 16 * ((inst \div 64) % 4)
              rd == Pair24(mcu)
              r == (rd - k) % 65536
              v == Bit(rd, 15) * (1 - Bit(r, 15))
          IN  /\ Pair24(mcu') = r
              /\ Flag(mcu', AVR_SREG_CARRY) = (IF k > rd THEN 1 ELSE 0)
              /\ Flag(mcu', AVR_SREG_TWOSCOM_OF) = v
              /\ Flag(mcu', AVR_SREG_NEGATIVE) = Bit(r, 15)
              /\ Flag(mcu', AVR_SREG_ZERO) = (IF r = 0 THEN 1 ELSE 0)
              /\ Flag(mcu', AVR_SREG_SIGN) = BitXor(Bit(r, 15), v)]_vars

\* SBIW R24,1 has completed on the pair value 0x0000
C26_BorrowCase ==
    /\ Completed /\ last.inst = OP_SBIW(0, 1)
    /\ Pair24(mcu) = 65535 /\ Flag(mcu, AVR_SREG_CARRY) = 1

(***************************************************************************)
(* The right shifts ASR, LSR and ROR on R16, with every operand.           *)
(***************************************************************************)
InitShift ==
    /\ \E op \in {OP_ASR(16), OP_LSR(16), OP_ROR(16)}, rd \in 0 .. 255,
          sreg \in {0, 1, 254, 255} :
          mcu = AluMachine(op, rd, 0, sreg)
    /\ build \in [reti_order : {<<"e", "h", "l">>}]
    /\ budget = 0
    /\ phase = "step"
    /\ ret = 0
    /\ last = NoHistory
    /\ tc0 = Tc0Reset
    /\ vcd = NoVcd
    /\ twin = NoTwin

SpecShift == InitShift /\ [][DriverStep]_vars

IsAsr(inst) == BitAnd(inst, \hFE0F) = \h9405
IsLsr(inst) == BitAnd(inst, \hFE0F) = \h9406
IsRor(inst) == BitAnd(inst, \hFE0F) = \h9407

\* C27: ASR gives a result whose bit 7 is bit 7 of rd and whose bits 6..0
\* are bits 7..1 of rd; ROR gives a result whose bit 7 is the old C and whose
\* bits 6..0 are bits 7..1 of rd; both set C to bit 0 of rd.
C27_AsrRorResultAndCarry ==
    [][(StepCall /\ (IsAsr(FetchWord(mcu)) \/ IsRor(FetchWord(mcu)))) =>
          LET inst == FetchWord(mcu)
              d == (inst \div 16) % 32
              rd == mcu.dm[d]
              top == IF IsAsr(inst) THEN Bit(rd, 7) ELSE Flag(mcu, AVR_SREG_CARRY)
          IN  /\ mcu'.dm[d] = 128 * top + (rd \div 2)
              /\ Flag(mcu', AVR_SREG_CARRY) = rd % 2]_vars

\* ASR of 0x81 has given 0xC0 with C set
C27_Witness ==
    /\ AfterStep /\ IsAsr(last.inst) /\ last.rd = 129
    /\ mcu.dm[16] = 192 /\ Flag(mcu, AVR_SREG_CARRY) = 1

\* C28: ASR, LSR and ROR leave the H, T and I bits of SREG as they were,
\* for every operand and every prior SREG.
C28_RightShiftsKeepHTI ==
    [][(StepCall /\ (IsAsr(FetchWord(mcu)) \/ IsLsr(FetchWord(mcu)) \/ IsRor(FetchWord(mcu))))
          => /\ Flag(mcu', AVR_SREG_HALF_CARRY) = Flag(mcu, AVR_SREG_HALF_CARRY)
             /\ Flag(mcu', AVR_SREG_T_BIT) = Flag(mcu, AVR_SREG_T_BIT)
             /\ Flag(mcu', AVR_SREG_GLOB_INT) = Flag(mcu, AVR_SREG_GLOB_INT)]_vars

\* LSR has run with H, T and I set and has left them set
C28_LsrKeepsFlags ==
    /\ AfterStep /\ IsLsr(last.inst) /\ last.sreg = 255
    /\ Flag(mcu, AVR_SREG_HALF_CARRY) = 1 /\ Flag(mcu, AVR_SREG_T_BIT) = 1
    /\ Flag(mcu, AVR_SREG_GLOB_INT) = 1

(***************************************************************************)
(* The six multiplications on R16 and R17, with operands of either sign.   *)
(***************************************************************************)
MulBytes == {0, 1, 2, 16, 64, 127, 128, 129, 255}

MulCodes ==
    {OP_MUL(16, 17), OP_MULS(16, 17), OP_MULSU(16, 17),
     OP_FMUL(16, 17), OP_FMULS(16, 17), OP_FMULSU(16, 17)}

InitMul ==
    /\ \E op \in MulCodes, rd \in MulBytes, rr \in MulBytes, sreg \in {0, 255} :
          mcu = AluMachine(op, rd, rr, sreg)
    /\ build \in [reti_order : {<<"e", "h", "l">>}]
    /\ budget = 0
    /\ phase = "step"
    /\ ret = 0
    /\ last = NoHistory
    /\ tc0 = Tc0Reset
    /\ vcd = NoVcd
    /\ twin = NoTwin

\* a multiplication takes two cycles: the driver loop runs on
SpecMul == InitMul /\ [][DriverStep \/ Tick \/ DriverIrq]_vars

IsMul(inst) == BitAnd(inst, \hFC00) = \h9C00
IsMuls(inst) == BitAnd(inst, \hFF00) = \h0200
IsMulsu(inst) == BitAnd(inst, \hFF88) = \h0300
IsFmul(inst) == BitAnd(inst, \hFF88) = \h0308
IsFmuls(inst) == BitAnd(inst, \hFF88) = \h0380
IsFmulsu(inst) == BitAnd(inst, \hFF88) = \h0388
IsMultiply(inst) ==
    IsMul(inst) \/ IsMuls(inst) \/ IsMulsu(inst) \/ IsFmul(inst) \/ IsFmuls(inst) \/ IsFmulsu(inst)

\* the product of the operands in R16 and R17, each read as the instruction reads it
Product(m, inst) ==
    LET rd == m.dm[16]
        rr == m.dm[17]
    IN  IF IsMul(inst) \/ IsFmul(inst) THEN rd * rr
        ELSE IF IsMuls(inst) \/ IsFmuls(inst) THEN SignedChar(rd) * SignedChar(rr)
        ELSE SignedChar(rd) * rr

Pair0(m) == 256 * m.dm[1] + m.dm[0]

\* a multiplication executes in this step (its second cycle)
MulExecutes ==
    StepCall /\ IsMultiply(FetchWord(mcu)) /\ mcu.in_mcinst = 1 /\ mcu'.in_mcinst = 0

\* C29: MUL, MULS and MULSU write the 16-bit product to R1:R0; FMUL, FMULS
\* and FMULSU write the product shifted left by one; each sets C to bit 15 of
\* the product and Z exactly when the 16-bit value written is zero.
C29_MultiplyResultAndFlags ==
    [][MulExecutes =>
          LET inst == FetchWord(mcu)
              p == Product(mcu, inst)
              frac == IsFmul(inst) \/ IsFmuls(inst) \/ IsFmulsu(inst)
              value == IF frac THEN (2 * p) % 65536 ELSE p % 65536
          IN  /\ Pair0(mcu') = value
              /\ Flag(mcu', AVR_SREG_CARRY) = Bit(p, 15)
              /\ Flag(mcu', AVR_SREG_ZERO) = (IF Pair0(mcu') = 0 THEN 1 ELSE 0)]_vars

\* FMUL of 0x10 by 0x01 has completed
C29_FmulCompleted ==
    /\ Completed /\ last.inst = OP_FMUL(16, 17)
    /\ mcu.dm[16] = 16 /\ mcu.dm[17] = 1

(***************************************************************************)
(* Relative jumps, calls and branches from the middle of the flash, so     *)
(* that every displacement leads to a program counter that exists.         *)
(***************************************************************************)
JumpWord == 2048
JumpStart == 2 * JumpWord

Rel12 == {-2048, -1, 0, 1, 2047}
Rel7 == {-64, -1, 0, 1, 63}

JumpCodes ==
    {OP_RJMP(k) : k \in Rel12} \cup {OP_RCALL(k) : k \in Rel12}
        \cup {OP_BRBS(b, k) : b \in 0 .. 7, k \in Rel7}
        \cup {OP_BRBC(b, k) : b \in 0 .. 7, k \in Rel7}

InitJump ==
    /\ \E prof \in Profiles, op \in JumpCodes, sreg \in {0, 85, 170, 255} :
          mcu = [InitMachine(prof, <<OP_NOP>>, Sub, 0, 0, 0) EXCEPT
                    !.pm = Merge(@, Image(JumpStart, <<op>>)),
                    !.pc = JumpStart,
                    !.dm[SREG_ADDR] = sreg]
    /\ build \in [reti_order : {<<"e", "h", "l">>}]
    /\ budget = 0
    /\ phase = "step"
    /\ ret = 0
    /\ last = NoHistory
    /\ tc0 = Tc0Reset
    /\ vcd = NoVcd
    /\ twin = NoTwin

SpecJump == InitJump /\ [][DriverStep \/ Tick \/ DriverIrq]_vars

IsRelative(inst) == BitAnd(inst, \hE000) = \hC000
IsBranch(inst) == BitAnd(inst, \hF800) = \hF000

\* a field of w bits read as a two's complement number
SignExtended(field, w) == field - (2 ^ w) * Bit(field, w - 1)

\* BRBS (bit 10 clear) branches on a set flag, BRBC (bit 10 set) on a clear one
BranchTaken(m, inst) == Flag(m, inst % 8) # Bit(inst, 10)

\* C30: RJMP and RCALL set PC to PC + 2*(k+1), k the 12-bit field
\* sign-extended to -2048 .. 2047; a taken BRBS or BRBC, on any SREG bit,
\* sets PC to PC + 2*(k+1), k the 7-bit field sign-extended to -64 .. 63.
C30_RelativeTargets ==
    [][(StepCall /\ mcu.in_mcinst = 1 /\ mcu'.in_mcinst = 0) =>
          LET inst == FetchWord(mcu)
          IN  /\ IsRelative(inst) =>
                    mcu'.pc = mcu.pc + 2 * (SignExtended(inst % 4096, 12) + 1)
              /\ (IsBranch(inst) /\ BranchTaken(mcu, inst)) =>
                    mcu'.pc = mcu.pc + 2 * (SignExtended((inst \div 8) % 128, 7) + 1)]_vars

\* BRBC 7,-64 has been taken and has led 126 bytes back
C30_BranchedBack ==
    /\ Completed /\ last.inst = OP_BRBC(7, -64)
    /\ mcu.pc = JumpStart - 126

LdCodes == {\h900C, \h900D, \h900E, \h8008, \h9009, \h900A, \h8000, \h9001, \h9002}
LdStCodes == {c + 16 * 16 : c \in LdCodes} \cup {c + \h0200 + 16 * 16 : c \in LdCodes}

LdStAddrs == {0, 1, 2, RAMSTART - 2, RAMSTART, RAMSTART + 1, RAMEND}

\* every byte of data memory below the pointer registers and in the SRAM
\* holds a value of its own
LdStMachine(prof, op, low, a, v) ==
    LET base == InitMachine(prof, <<op>>, Sub, 0, 0, 0)
    IN  [base EXCEPT !.dm = [k \in DmAddrs |->
             IF k = 16 THEN v
             ELSE IF k = low THEN a % 256
             ELSE IF k = low + 1 THEN a \div 256
             ELSE IF k < 16 \/ k >= RAMSTART THEN 100 + (k % 128)
             ELSE base.dm[k]]]

\* the register that holds the low byte of the pointer the word names
PointerOf(inst) ==
    IF inst % 16 >= 12 THEN 26 ELSE IF inst % 16 >= 8 THEN 28 ELSE 30

InitLdSt ==
    /\ \E prof \in Profiles, op \in LdStCodes, a \in LdStAddrs, v \in {\h5A, \hA5} :
          mcu = LdStMachine(prof, op, PointerOf(op), a, v)
    /\ build \in [reti_order : {<<"e", "h", "l">>}]
    /\ budget = 0
    /\ phase = "step"
    /\ ret = 0
    /\ last = NoHistory
    /\ tc0 = Tc0Reset
    /\ vcd = NoVcd
    /\ twin = NoTwin

SpecLdSt == InitLdSt /\ [][DriverStep \/ Tick \/ DriverIrq]_vars

\* LD/ST with post-increment or pre-decrement and LD/ST X (0x9000 group), or
\* LD/ST through Y or Z with no displacement (0x8000 group)
IsLdSt(inst) ==
    \/ BitAnd(inst, \hFC00) = \h9000 /\ (inst % 16) \in {1, 2, 9, 10, 12, 13, 14}
    \/ BitAnd(inst, \hFC07) = \h8000

\* the call of MSIM_AVR_Step that carries out the load or store
LdStExecutes ==
    StepCall /\ IsLdSt(FetchWord(mcu)) /\ mcu'.in_mcinst = 0 /\ ~mcu'.fault

LddBase == RAMEND - 63

LddCodes ==
    UNION {{OP_LDD_Z(d, q), OP_LDD_Y(d, q), OP_STD_Z(d, q), OP_STD_Y(d, q)} :
              d \in {0, 16}, q \in 0 .. 63}

\* every byte of data memory but the stack pointer and the index holds a
\* value of its own
LddMachine(prof, op, low) ==
    LET base == InitMachine(prof, <<op>>, Sub, 0, 0, 0)
    IN  [base EXCEPT !.dm = [k \in DmAddrs |->
             IF k \in {SPL_ADDR, SPH_ADDR} THEN base.dm[k]
             ELSE IF k = low THEN LddBase % 256
             ELSE IF k = low + 1 THEN LddBase \div 256
             ELSE (3 * k + 1) % 256]]

InitLdd ==
    /\ \E prof \in Profiles, op \in LddCodes :
          mcu = LddMachine(prof, op, IF Bit(op, 3) = 1 THEN 28 ELSE 30)
    /\ build \in [reti_order : {<<"e", "h", "l">>}]
    /\ budget = 0
    /\ phase = "step"
    /\ ret = 0
    /\ last = NoHistory
    /\ tc0 = Tc0Reset
    /\ vcd = NoVcd
    /\ twin = NoTwin

SpecLdd == InitLdd /\ [][DriverStep \/ Tick \/ DriverIrq]_vars

\* the instruction words 10q0 qqsd dddd yqqq
IsLdd(inst) == BitAnd(inst, \hD000) = \h8000

\* the displacement q of such a word
LddQ(inst) == (inst % 8) + 8 * ((inst \div 1024) % 4) + 32 * Bit(inst, 13)

\* the call of MSIM_AVR_Step that carries the word at PC out
LddExecutes ==
    StepCall /\ mcu.pc = Start /\ IsLdd(FetchWord(mcu)) /\ mcu'.in_mcinst = 0

\* C33: for every displacement q in 0 .. 63, LDD Rd,Y+q and LDD Rd,Z+q load
\* dm[index + q] into Rd, STD Y+q,Rr and STD Z+q,Rr store Rr to
\* dm[index + q]; the index is unchanged and PC advances by 2.
C33_DisplacedLoadStore ==
    [][LddExecutes =>
          LET inst == FetchWord(mcu)
              low == IF Bit(inst, 3) = 1 THEN 28 ELSE 30
              d == (inst \div 16) % 32
              at == mcu.dm[low] + 256 * mcu.dm[low + 1] + LddQ(inst)
          IN  /\ mcu'.dm = (IF Bit(inst, 9) = 1
                            THEN [mcu.dm EXCEPT ![at] = mcu.dm[d]]
                            ELSE [mcu.dm EXCEPT ![d] = mcu.dm[at]])
              /\ mcu'.dm[low] = mcu.dm[low] /\ mcu'.dm[low + 1] = mcu.dm[low + 1]
              /\ mcu'.pc = mcu.pc + 2]_vars

\* the word of STD Y+32,R16 has been carried out
C33_StdY32Done ==
    /\ AfterStep /\ last.inst = OP_STD_Y(16, 32) /\ mcu.in_mcinst = 0
    /\ mcu.pc = Start + 2

(***************************************************************************)
(* Timer/Counter0 with the firmware rewriting the clock-select bits        *)
(* between the ticks.                                                      *)
(***************************************************************************)
ClockTicks == 6
ClockSelects == {0, 1, 2, 3}

InitClock ==
    /\ \E cs0 \in ClockSelects, wgm \in {0, 2}, tcnt \in {0, CompareTop + 2} :
          mcu = [TimerMachine(cs0, 0) EXCEPT !.dm[TCCR0A] = wgm, !.dm[OCR0A] = CompareTop,
                                             !.dm[TCNT0] = tcnt]
    /\ build \in [reti_order : {<<"e", "h", "l">>}]
    /\ budget = 0
    /\ phase = "timer"
    /\ ret = 0
    /\ last = NoHistory
    /\ tc0 = Tc0Reset
    /\ vcd = NoVcd
    /\ twin = NoTwin

\* a store of the firmware to TCCR0B that selects another clock
SetClock ==
    /\ \E cs0 \in ClockSelects :
          /\ cs0 # BitAnd(mcu.dm[TCCR0B], 7)
          /\ mcu' = [mcu EXCEPT !.dm[TCCR0B] = cs0]
    /\ UNCHANGED <<build, budget, phase, ret, last, tc0, vcd, twin>>

ClockTick == tc0.n < ClockTicks /\ TimerTick

SpecClock == InitClock /\ [][ClockTick \/ SetClock]_vars

\* the timer is about to find a prescaler other than the one it counts with
PrescalerChanged == InternalClock(mcu) /\ Prescaler(mcu) # tc0.tc0_presc

\* a step of the timer: SetClock always changes TCCR0B, a tick never does
IsTimerTick == mcu'.dm[TCCR0B] = mcu.dm[TCCR0B] /\ <<mcu, tc0>>' # <<mcu, tc0>>

\* C34: on the tick that finds the clock-select bits changed, the prescaler
\* tick accumulator restarts from 0, and if TCNT0 is greater than OCR0A the
\* missed-compare flag is latched; on the tick after the flag was latched
\* the compare match is serviced: OCF0A is raised in TIFR0.
C34_ClockChangeServicesMissedCompare ==
    [][IsTimerTick =>
          /\ PrescalerChanged => tc0'.tc0_ticks = 0
          /\ (PrescalerChanged /\ mcu.dm[TCNT0] > mcu.dm[OCR0A]) => tc0'.missed_cm = 1
          /\ tc0.missed_cm = 1 => IS_SET(mcu'.dm[TIFR0], OCF0A) = 1]_vars

\* the compare was missed on a change to clk/8 and a later tick has passed
C34_TickAfterLatch ==
    /\ tc0.missed_cm = 1 /\ tc0.tc0_presc = 8 /\ tc0.n >= 2
    /\ mcu.dm[TCNT0] > mcu.dm[OCR0A]

(***************************************************************************)
(* Breakpoints: BREAK in the flash, the replaced word in the match-point   *)
(* memory.                                                                 *)
(***************************************************************************)
\* the word at the PC of m in its flash and in its match-point memory
FlashWord(m) == PmByte(m, m.pc) + 256 * PmByte(m, m.pc + 1)
MatchPointWord(m) == MpmByte(m, m.pc) + 256 * MpmByte(m, m.pc + 1)

\* C35: BREAK sets the run state to AVR_STOPPED without advancing PC and
\* arms the match-point fetch (read_from_mpm = 1); the next MSIM_AVR_Step
\* takes its instruction word from the match-point memory at PC and clears
\* the flag, so that every later Step reads the flash again until another
\* BREAK executes.
C35_BreakArmsOneMatchPointFetch ==
    [][StepCall =>
          LET inst == IF mcu.read_from_mpm = 1 THEN MatchPointWord(mcu) ELSE FlashWord(mcu)
          IN  /\ last'.inst = inst
              /\ mcu'.read_from_mpm = (IF inst = OP_BREAK THEN 1 ELSE 0)
              /\ inst = OP_BREAK =>
                    /\ mcu'.state = AVR_STOPPED
                    /\ mcu'.pc = mcu.pc]_vars

\* the word behind a breakpoint has been executed from the match-point
\* memory, and the flag is clear again
C35_SteppedOverBreakpoint ==
    /\ AfterStep /\ PmByte(mcu, last.pc) + 256 * PmByte(mcu, last.pc + 1) = OP_BREAK
    /\ last.inst # OP_BREAK /\ mcu.read_from_mpm = 0 /\ mcu.pc # last.pc

\* C39: when execution has resumed at a breakpoint address (the flash holds
\* BREAK there, the match-point memory the original word) and the original
\* instruction is multi-cycle, every further cycle of it decodes the
\* original word: BREAK is not executed again at that PC and the run state
\* does not return to AVR_STOPPED before the instruction has completed.
C39_BreakpointedInstructionRunsThrough ==
    [][(StepCall /\ mcu.in_mcinst = 1 /\ FlashWord(mcu) = OP_BREAK) =>
          /\ last'.inst = MatchPointWord(mcu)
          /\ mcu'.state # AVR_STOPPED]_vars

\* the first cycle of a multi-cycle instruction behind a breakpoint is done
C39_InsideBreakpointedInstruction ==
    /\ AfterStep /\ mcu.in_mcinst = 1 /\ last.in_mcinst = 0
    /\ FlashWord(mcu) = OP_BREAK /\ last.inst = MatchPointWord(mcu)
    /\ mcu.state = AVR_RUNNING

(***************************************************************************)
(* The skip instructions CPSE, SBRC, SBRS, SBIC and SBIS in front of       *)
(* 16-bit and 32-bit instructions, and a branch, on every device profile.  *)
(***************************************************************************)
\* the I/O address of the register SBIC and SBIS test
SkipIo == M328P.PIND - 32

SkipBits == {0, 7}
SkipValues == {0, 1, 128, 255}

SkipCodes ==
    {OP_CPSE(16, 17)}
        \cup {OP_SBRC(16, b) : b \in SkipBits} \cup {OP_SBRS(16, b) : b \in SkipBits}
        \cup {OP_SBIC(SkipIo, b) : b \in SkipBits} \cup {OP_SBIS(SkipIo, b) : b \in SkipBits}

\* the instruction that follows: 16-bit ones, and LDS with its address word
SkipNext ==
    {<<OP_NOP, OP_NOP>>, <<OP_ADIW(0, 1), OP_NOP>>, <<OP_ADIW(0, 12), OP_NOP>>,
     <<OP_SBIW(0, 63), OP_NOP>>, <<OP_LDS(16), RAMSTART>>}

SkipMachine(prof, prog, r16, io) ==
    [InitMachine(prof, prog, Sub, 0, 0, 0) EXCEPT !.dm[16] = r16, !.dm[SkipIo + 32] = io]

InitSkip ==
    /\ \E prof \in Profiles, op \in SkipCodes, n \in SkipNext,
          r16 \in SkipValues, io \in SkipValues :
          mcu = SkipMachine(prof, <<op>> \o n \o <<OP_NOP>>, r16, io)
    /\ build \in [reti_order : {<<"e", "h", "l">>}]
    /\ budget = 0
    /\ phase = "step"
    /\ ret = 0
    /\ last = NoHistory
    /\ tc0 = Tc0Reset
    /\ vcd = NoVcd
    /\ twin = NoTwin

SpecSkip == InitSkip /\ [][DriverStep \/ Tick \/ DriverIrq]_vars

IsSkip(inst) == IsCpse(inst) \/ IsSbrc(inst) \/ IsSbrs(inst) \/ IsSbic(inst) \/ IsSbis(inst)

\* the I/O register an SBIC or SBIS word names, as a data memory address
SkipIoReg(inst) == ((inst \div 8) % 32) + 32

\* the call of MSIM_AVR_Step on which the skip instruction at Start moves PC
SkipCompletes ==
    StepCall /\ mcu.pc = Start /\ IsSkip(FetchWord(mcu)) /\ mcu'.pc # mcu.pc

\* C37: a skip instruction whose condition is true, in front of a 16-bit
\* instruction (any but LDS, STS, JMP, CALL), advances PC by exactly 4.
C37_SkipsOneWord ==
    [][(SkipCompletes /\ SkipTaken(mcu, FetchWord(mcu))
            /\ ~TwoWordInstruction(PmWord(mcu, mcu.pc + 2))) =>
          mcu'.pc = mcu.pc + 4]_vars

\* SBIS on a set bit has skipped in front of ADIW R24,12
C37_SkippedBeforeAdiw ==
    /\ AfterStep /\ last.pc = Start /\ last.inst = OP_SBIS(SkipIo, 0)
    /\ mcu.dm[SkipIo + 32] = 255 /\ PmWord(mcu, Start + 2) = OP_ADIW(0, 12)
    /\ mcu.pc # last.pc

\* a call of MSIM_AVR_Step that executes a cycle of the SBIC or SBIS at Start
SbicSbisCycle ==
    StepCall /\ mcu.pc = Start
        /\ (IsSbic(FetchWord(mcu)) \/ IsSbis(FetchWord(mcu)))

\* C38: SBIC skips exactly when bit b of the I/O register is 0 and SBIS
\* exactly when it is 1, whatever the other seven bits are; without a skip
\* PC advances by 2; the I/O register is never modified.
C38_SkipOnTestedBitOnly ==
    [][SbicSbisCycle =>
          /\ mcu'.dm[SkipIoReg(FetchWord(mcu))] = mcu.dm[SkipIoReg(FetchWord(mcu))]
          /\ mcu'.pc # mcu.pc =>
                IF SkipTaken(mcu, FetchWord(mcu))
                THEN mcu'.pc > mcu.pc + 2
                ELSE mcu'.pc = mcu.pc + 2]_vars

\* SBIC on bit 0 has completed with every bit of the I/O register set
C38_SbicOnSetBit ==
    /\ AfterStep /\ last.pc = Start /\ last.inst = OP_SBIC(SkipIo, 0)
    /\ mcu.dm[SkipIo + 32] = 255
    /\ mcu.pc # last.pc

(***************************************************************************)
(* The scripting hook: a model's tick runs every cycle and may write a     *)
(* register, an I/O byte or SREG; the write is visible to the next cycle.  *)
(* The skips and the branches run with the hook writing the locations      *)
(* they test.                                                              *)
(***************************************************************************)
HookCodes ==
    SkipCodes \cup {OP_BRBS(b, 1) : b \in SkipBits} \cup {OP_BRBC(b, 1) : b \in SkipBits}

HookPlaces == {16, SkipIo + 32, SREG_ADDR}

InitHook ==
    /\ \E prof \in Profiles, op \in HookCodes, v \in SkipValues :
          mcu = [InitMachine(prof, <<op, OP_NOP, OP_NOP, OP_NOP>>, Sub, 0, 0, 0) EXCEPT
                    !.dm[16] = v, !.dm[SkipIo + 32] = v, !.dm[SREG_ADDR] = v]
    /\ build \in [reti_order : {<<"e", "h", "l">>}]
    /\ budget = 0
    /\ phase = "step"
    /\ ret = 0
    /\ last = NoHistory
    /\ tc0 = Tc0Reset
    /\ vcd = NoVcd
    /\ twin = NoTwin

HookWrite ==
    /\ phase = "step"
    /\ last.op = "irq"
    /\ \E a \in HookPlaces, v \in SkipValues : mcu' = [mcu EXCEPT !.dm[a] = v]
    /\ UNCHANGED <<build, budget, phase, ret, last, tc0, vcd, twin>>

SpecHook == InitHook /\ [][DriverStep \/ Tick \/ DriverIrq \/ HookWrite]_vars

\* C36: whenever a call of MSIM_AVR_Step changes PC, in_mcinst is 0 after
\* the call, also when the hook changed the tested location between the
\* cycles of a skip or a branch, on xmega and other devices.
C36_PcChangeEndsInstruction ==
    [][(StepCall /\ mcu'.pc # mcu.pc) => mcu'.in_mcinst = 0]_vars

\* SBIS began its skip cycles on a set bit, the hook cleared the bit, and the
\* last cycle did not skip
C36_BitClearedBetweenCycles ==
    /\ AfterStep /\ last.pc = Start /\ last.inst = OP_SBIS(SkipIo, 0)
    /\ last.in_mcinst = 1 /\ mcu.xmega = 0
    /\ mcu.pc = Start + 2

(***************************************************************************)
(* The fuses of ATmega328P.  MSIM_M328PSetFuse stores a fuse byte and      *)
(* derives the clock source and frequency from the low fuse, the boot      *)
(* section, the reset address and PC from the high fuse.                   *)
(***************************************************************************)
FUSE_LOW == 0
FUSE_HIGH == 1
FUSE_EXT == 2

\* the boot section BOOTSZ1:0 selects
BootSection(bootsz) ==
    CASE bootsz = 3 -> [start |-> \h7E00, end |-> \h7FFF, size |-> 512]
      [] bootsz = 2 -> [start |-> \h7C00, end |-> \h7FFF, size |-> 1024]
      [] bootsz = 1 -> [start |-> \h7800, end |-> \h7FFF, size |-> 2048]
      [] OTHER -> [start |-> \h7000, end |-> \h7FFF, size |-> 4096]

\* the low fuse: CKSEL3:0 selects the clock source and the highest frequency
SetFuse_Low(m, fuse_v) ==
    LET cksel == fuse_v % 16
    IN  CASE cksel = 0 -> [m |-> [m EXCEPT !.clk_source = "AVR_EXT_CLK"], err |-> 0]
          [] cksel = 1 -> [m |-> m, err |-> 1]
          [] cksel = 2 ->
              [m |-> [m EXCEPT !.clk_source = "AVR_INT_CAL_RC_CLK", !.freq = 8000000],
               err |-> 0]
          [] cksel = 3 ->
              [m |-> [m EXCEPT !.clk_source = "AVR_INT_128K_RC_CLK", !.freq = 128000],
               err |-> 0]
          [] cksel \in {4, 5} ->
              [m |-> [m EXCEPT !.clk_source = "AVR_EXT_LOWF_CRYSTAL_CLK",
                               !.freq = IF cksel = 4 THEN 1000000 ELSE 32768],
               err |-> 0]
          [] cksel \in {6, 7} ->
              [m |-> [m EXCEPT !.clk_source = "AVR_FULLSWING_CRYSTAL_CLK", !.freq = 20000000],
               err |-> 0]
          [] OTHER ->
              [m |-> [m EXCEPT !.clk_source = "AVR_LOWP_CRYSTAL_CLK",
                               !.freq = CASE BitAnd(cksel, 14) = 8 -> 900000
                                          [] BitAnd(cksel, 14) = 10 -> 3000000
                                          [] BitAnd(cksel, 14) = 12 -> 8000000
                                          [] OTHER -> 16000000],
               err |-> 0]

\* the high fuse: BOOTSZ1:0 and BOOTRST
SetFuse_High(m, fuse_v) ==
    LET bls == BootSection((fuse_v \div 2) % 4)
        reset_pc == IF fuse_v % 2 = 1 THEN 0 ELSE bls.start
    IN  [m |-> [m EXCEPT !.bls = bls, !.reset_pc = reset_pc, !.pc = reset_pc], err |-> 0]

\* the fuse byte is stored as soon as the fuse number is accepted
MSIM_M328PSetFuse(m, fuse_n, fuse_v) ==
    IF fuse_n > 2 THEN [m |-> m, err |-> 1]
    ELSE LET stored == [m EXCEPT !.fuse[fuse_n] = fuse_v]
         IN  CASE fuse_n = FUSE_LOW -> SetFuse_Low(stored, fuse_v)
               [] fuse_n = FUSE_HIGH -> SetFuse_High(stored, fuse_v)
               [] OTHER -> [m |-> stored, err |-> 0]

\* fuse numbers 0 .. MaxFuse are tried, in at most MaxFuseCalls calls
MaxFuse == 3
MaxFuseCalls == 3

\* every clock selection and boot section, and the factory bytes 0x62, 0xD9, 0xFF
FuseValues == (0 .. 15) \cup {98, 217, 255}

\* ATmega328P as shipped: low fuse 0x62, high fuse 0xD9, extended fuse 0xFF
FuseMachine ==
    [fuse |-> (FUSE_LOW :> 98 @@ FUSE_HIGH :> 217 @@ FUSE_EXT :> 255),
     clk_source |-> "AVR_INT_CAL_RC_CLK", freq |-> 8000000,
     bls |-> BootSection(0), reset_pc |-> 0] @@ [AluBase EXCEPT !.pc = 0]

InitFuse ==
    /\ mcu = FuseMachine
    /\ build \in [reti_order : {<<"e", "h", "l">>}]
    /\ budget = 0
    /\ phase = "fuse"
    /\ ret = 0
    /\ last = NoHistory
    /\ tc0 = Tc0Reset
    /\ vcd = NoVcd
    /\ twin = NoTwin

SetFuse ==
    /\ phase = "fuse"
    /\ last.calls < MaxFuseCalls
    /\ \E fuse_n \in 0 .. MaxFuse, fuse_v \in FuseValues :
          /\ mcu' = MSIM_M328PSetFuse(mcu, fuse_n, fuse_v).m
          /\ ret' = MSIM_M328PSetFuse(mcu, fuse_n, fuse_v).err
          /\ last' = [last EXCEPT !.op = "fuse", !.calls = @ + 1,
                                   !.rd = fuse_n, !.rr = fuse_v]
    /\ UNCHANGED <<build, budget, phase, tc0, vcd, twin>>

SpecFuse == InitFuse /\ [][SetFuse]_vars

\* the fuse number and value of the call are refused
FuseRefused(fuse_n, fuse_v) == fuse_n > 2 \/ (fuse_n = FUSE_LOW /\ fuse_v % 16 = 1)

\* C40: MSIM_M328PSetFuse returns non-zero for a fuse number above 2 and for
\* the reserved clock selection CKSEL3:0 = 1, and then leaves the fuse bytes,
\* clock source, frequency, boot section, reset address and PC unchanged;
\* for every accepted value it returns 0.
C40_RefusedFuseChangesNothing ==
    [][last'.op = "fuse" =>
          IF FuseRefused(last'.rd, last'.rr)
          THEN /\ ret' # 0
               /\ mcu'.fuse = mcu.fuse
               /\ mcu'.clk_source = mcu.clk_source /\ mcu'.freq = mcu.freq
               /\ mcu'.bls = mcu.bls /\ mcu'.reset_pc = mcu.reset_pc
               /\ mcu'.pc = mcu.pc
          ELSE ret' = 0]_vars

\* a low fuse byte with the reserved clock selection has been refused
C40_ReservedClockRefused ==
    /\ last.op = "fuse" /\ last.rd = FUSE_LOW /\ last.rr % 16 = 1
    /\ ret # 0

====
